---- MODULE Spec2Model ----
(***************************************************************************)
(* State-machine model of the robot-soccer world (models/world.py), its    *)
(* robots (models/robot.py), ball (models/ball.py), collision resolver     *)
(* (simulation/collisions.py) and team strategy planner                    *)
(* (controllers/strategy_planner_full.py, actions/*.py).                   *)
(*                                                                         *)
(* Fixed-point units: lengths in mm, speeds in mm/s, angles in whole       *)
(* degrees, angular speeds in deg/s, times in ms.  Unit vectors and other  *)
(* ratios are scaled by Unit, exponentials by ExpScale.  Divisions round   *)
(* to the nearest integer (DivR), the closest integer image of the float   *)
(* arithmetic of the source.                                               *)
(***************************************************************************)
EXTENDS Integers, Sequences, FiniteSets, TLC

VARIABLES
    robots,         \* [<<side, id>> -> robot record]   Team.robots of both teams
    ball,           \* [x, y, vx, vy]                    World.ball
    kick_cooldown,  \* ms                                World.kick_cooldown
    t,              \* ms                                World.t
    score,          \* [left, right]                     World.score
    state,          \* match state                       World.state
    pc,             \* position inside World.update: "idle" or the phase to run next
    udt,            \* dt argument of the World.update call in progress
    iter,           \* relaxation passes of enforce_no_overlap already run
    clamped,        \* robots the field clamp has moved in the resolver call in progress
    phases,         \* phases run by the World.update call in progress / last completed
    passes,         \* decide passes run so far
    last,           \* name of the call in progress or last completed
    pre,            \* the world at the entry of that call
    imagined,       \* StrategyPlannerFull.imagined_optimal of both planners
    allowed,        \* StrategyPlannerFull.allowed_per_robot of both planners
    args,           \* arguments of the call in progress or last completed (a record)
    goalie_id,      \* [left, right]                    Team.goalie_id (0 stands for None)
    config,         \* [field_w, field_h, max_speed]    World.field_w, field_h, Robot.max_speed
    team,           \* [robots, goalie_id, _next_robot_id]  one Team object
    added           \* the robot ids add_robot has ever put into team

vars == <<robots, ball, kick_cooldown, t, score, state, pc, udt, iter, clamped, phases,
          passes, last, pre, imagined, allowed, args, goalie_id, config, team, added>>

----------------------------------------------------------------------------
(* Bounds of the model *)

MaxTicks == 2
MaxPasses == 3
MaxScore == 1

----------------------------------------------------------------------------
(* Arithmetic *)

Unit == 10 ^ 3
ExpScale == 10 ^ 5

Abs(a) == IF a < 0 THEN -a ELSE a
Sgn(a) == IF a < 0 THEN -1 ELSE IF a > 0 THEN 1 ELSE 0
Min(a, b) == IF a < b THEN a ELSE b
Max(a, b) == IF a > b THEN a ELSE b

Range(f) == {f[n] : n \in DOMAIN f}

\* a / b rounded to the nearest integer, b > 0
DivR(a, b) == Sgn(a) * ((2 * Abs(a) + b) \div (2 * b))

_clamp(x, lo, hi) == Max(lo, Min(hi, x))

RECURSIVE SqrtIter(_, _, _)
SqrtIter(n, lo, hi) ==
    IF lo >= hi THEN lo
    ELSE LET mid == (lo + hi + 1) \div 2
         IN IF mid * mid <= n THEN SqrtIter(n, mid, hi) ELSE SqrtIter(n, lo, mid - 1)

\* math.sqrt, rounded to the nearest integer
Sqrt(n) ==
    LET Rounded(f) == IF n - f * f > f THEN f + 1 ELSE f
    IN Rounded(SqrtIter(n, 0, 46340))

\* a norm that underestimates every diagonal
Hypot_largest(a, b) == Max(Abs(a), Abs(b))

\* math.hypot
Hypot(a, b) == Sqrt(a * a + b * b)

\* sin of 0..90 degrees, scaled by Unit
SinTable == <<
      0,  17,  35,  52,  70,  87, 105, 122, 139, 156,
    174, 191, 208, 225, 242, 259, 276, 292, 309, 326,
    342, 358, 375, 391, 407, 423, 438, 454, 469, 485,
    500, 515, 530, 545, 559, 574, 588, 602, 616, 629,
    643, 656, 669, 682, 695, 707, 719, 731, 743, 755,
    766, 777, 788, 799, 809, 819, 829, 839, 848, 857,
    866, 875, 883, 891, 899, 906, 914, 921, 927, 934,
    940, 946, 951, 956, 961, 966, 970, 974, 978, 982,
    985, 988, 990, 993, 995, 996, 998, 999, 999, 1000,
    1000 >>

\* math.sin / math.cos of an angle in degrees, scaled by Unit
Sin(a) ==
    LET m == a % 360
        acute == IF m <= 90 THEN m
                 ELSE IF m <= 180 THEN 180 - m
                 ELSE IF m <= 270 THEN m - 180
                 ELSE 360 - m
    IN (IF m <= 180 THEN 1 ELSE -1) * SinTable[acute + 1]
Cos(a) == Sin(a + 90)

\* the angle in 0..90 whose tangent is closest to p / q (p, q >= 0, not both 0)
RECURSIVE AtanIter(_, _, _, _)
AtanIter(p, q, lo, hi) ==
    IF lo >= hi THEN lo
    ELSE LET mid == (lo + hi + 1) \div 2
         IN IF SinTable[mid + 1] * q <= SinTable[90 - mid + 1] * p
            THEN AtanIter(p, q, mid, hi) ELSE AtanIter(p, q, lo, mid - 1)

AtanQ(p, q) ==
    LET Rounded(f) ==
            IF f < 90 /\
               \* nearer to f + 1 than to f: compare against the half-way direction
               (Sin(f) + Sin(f + 1)) * q <= (Cos(f) + Cos(f + 1)) * p
            THEN f + 1 ELSE f
    IN Rounded(AtanIter(p, q, 0, 90))

\* math.atan2(dy, dx) in degrees, in (-180, 180]
Atan2(dy, dx) ==
    IF dx = 0 /\ dy = 0 THEN 0
    ELSE LET Quadrant(a) ==
                 IF dx >= 0 THEN (IF dy >= 0 THEN a ELSE -a)
                 ELSE (IF dy >= 0 THEN 180 - a ELSE (IF a = 0 THEN 180 ELSE a - 180))
         IN Quadrant(AtanQ(Abs(dy), Abs(dx)))

\* (a + pi) % (2 pi) - pi
_wrap_pi(a) == ((a + 180) % 360) - 180

\* math.exp(-x / Unit), scaled by ExpScale (Taylor series, 0 <= x <= 2 * Unit)
RECURSIVE ExpSeries(_, _, _, _)
ExpSeries(x, k, term, acc) ==
    IF k > 12 \/ term = 0 THEN acc
    ELSE LET nt == DivR(term * x, Unit * k)
         IN ExpSeries(x, k + 1, nt, IF k % 2 = 1 THEN acc - nt ELSE acc + nt)

ExpNeg(x) == ExpSeries(x, 1, ExpScale, ExpScale)

----------------------------------------------------------------------------
(* Robot (models/robot.py) *)

side_len == 450
max_speed == 2500
max_omega == 344
max_accel == 4000
max_alpha == 1146
tau_v == 120
tau_w == 100

half_side == side_len \div 2
outer_radius == Hypot(half_side, half_side)

\* Robot(): the dataclass defaults
Robot == [x |-> 0, y |-> 0, theta |-> 0, vx |-> 0, vy |-> 0, omega |-> 0,
          desired_vx |-> 0, desired_vy |-> 0, desired_omega |-> 0,
          active |-> TRUE, has_ball |-> FALSE, dbg_action |-> ""]

half_extents_xy(r) == DivR(half_side * (Abs(Cos(r.theta)) + Abs(Sin(r.theta))), Unit)

set_pose(r, x, y, theta) == [r EXCEPT !.x = x, !.y = y, !.theta = _wrap_pi(theta)]
set_vel(r, vx, vy, omega) == [r EXCEPT !.vx = vx, !.vy = vy, !.omega = omega]
stop(r) == [r EXCEPT !.desired_vx = 0, !.desired_vy = 0, !.desired_omega = 0]

\* Robot.command_velocity of a robot whose max_speed field is limit
command_velocity_limit(r, limit, vx, vy, omega) ==
    LET Limited(sp) ==
            LET over == sp > 0 /\ sp > limit
            IN [r EXCEPT !.desired_vx = IF over THEN DivR(vx * limit, sp) ELSE vx,
                         !.desired_vy = IF over THEN DivR(vy * limit, sp) ELSE vy,
                         !.desired_omega = _clamp(omega, -max_omega, max_omega)]
    IN Limited(Hypot(vx, vy))

command_velocity(r, vx, vy, omega) == command_velocity_limit(r, max_speed, vx, vy, omega)

\* a move command that ignores the speed asked for and goes at max_speed
command_move_towards_full(r, tx, ty, speed) ==
    LET dx == tx - r.x
        dy == ty - r.y
        Towards(d) ==
            IF dx = 0 /\ dy = 0 THEN command_velocity(r, 0, 0, r.desired_omega)
            ELSE command_velocity(r, DivR(dx * max_speed, d), DivR(dy * max_speed, d),
                                  r.desired_omega)
    IN Towards(Hypot(dx, dy))

command_move_towards(r, tx, ty, speed) ==
    LET dx == tx - r.x
        dy == ty - r.y
        Towards(d) ==
            IF dx = 0 /\ dy = 0 THEN command_velocity(r, 0, 0, r.desired_omega)
            ELSE command_velocity(r, DivR(dx * speed, d), DivR(dy * speed, d), r.desired_omega)
    IN Towards(Hypot(dx, dy))

\* kp = 3.0, max_rate = None (the only way the planner calls it)
command_face_point(r, tx, ty) ==
    LET err == _wrap_pi(Atan2(ty - r.y, tx - r.x) - r.theta)
    IN [r EXCEPT !.desired_omega = _clamp(3 * err, -max_omega, max_omega)]

_alpha(tau, dt) == IF tau <= 0 THEN ExpScale ELSE ExpScale - ExpNeg(DivR(dt * Unit, tau))

\* Robot.update of a robot whose max_speed field is limit
RobotUpdateLimit(r, dt, limit) ==
    IF ~r.active \/ dt <= 0 THEN r
    ELSE
    LET max_dv == DivR(max_accel * dt, 1000)
        max_dw == DivR(max_alpha * dt, 1000)
        \* the integration of the pose with the new velocities
        Integrated(vx, vy, omega) ==
            [r EXCEPT !.vx = vx, !.vy = vy, !.omega = omega,
                      !.x = r.x + DivR(vx * dt, 1000),
                      !.y = r.y + DivR(vy * dt, 1000),
                      !.theta = _wrap_pi(r.theta + DivR(omega * dt, 1000))]
        \* the hard acceleration clamp
        Accelerated(dvx0, dvy0, w_tgt, dv) ==
            LET hard == dv > max_dv /\ max_dv > 0
            IN Integrated(r.vx + (IF hard THEN DivR(dvx0 * max_dv, dv) ELSE dvx0),
                          r.vy + (IF hard THEN DivR(dvy0 * max_dv, dv) ELSE dvy0),
                          r.omega + _clamp(w_tgt - r.omega, -max_dw, max_dw))
        Targeted(vx_tgt, vy_tgt, w_tgt) ==
            Accelerated(vx_tgt - r.vx, vy_tgt - r.vy, w_tgt,
                        Hypot(vx_tgt - r.vx, vy_tgt - r.vy))
        \* the speed limit on the first-order target
        Limited(vx_t0, vy_t0, w_t0, sp) ==
            LET fast == sp > limit /\ limit > 0
            IN Targeted(IF fast THEN DivR(vx_t0 * limit, sp) ELSE vx_t0,
                        IF fast THEN DivR(vy_t0 * limit, sp) ELSE vy_t0,
                        _clamp(w_t0, -max_omega, max_omega))
        FirstOrder(vx_t0, vy_t0, w_t0) == Limited(vx_t0, vy_t0, w_t0, Hypot(vx_t0, vy_t0))
        Blended(av, aw) ==
            FirstOrder(r.vx + DivR(av * (r.desired_vx - r.vx), ExpScale),
                       r.vy + DivR(av * (r.desired_vy - r.vy), ExpScale),
                       r.omega + DivR(aw * (r.desired_omega - r.omega), ExpScale))
    IN Blended(_alpha(tau_v, dt), _alpha(tau_w, dt))

RobotUpdate(r, dt) == RobotUpdateLimit(r, dt, max_speed)

\* hypot(bx - x, by - y) <= max_dist and |ang_err| <= half_angle_deg
sees_ball_front(r, bx, by, max_dist, half_angle_deg) ==
    LET dx == bx - r.x
        dy == by - r.y
    IN /\ dx * dx + dy * dy <= max_dist * max_dist
       /\ Abs(_wrap_pi(Atan2(dy, dx) - r.theta)) <= half_angle_deg

\* (ax, ay, avx, avy); omega in deg/s is turned into rad/s by 1000 / 57296
dribble_anchor(r, ball_radius, gap) ==
    LET front == half_side + ball_radius + gap
        Offset(rx, ry) ==
            [ax |-> r.x + rx, ay |-> r.y + ry,
             avx |-> r.vx - DivR(r.omega * ry * 10, 573),
             avy |-> r.vy + DivR(r.omega * rx * 10, 573)]
    IN Offset(DivR(Cos(r.theta) * front, Unit), DivR(Sin(r.theta) * front, Unit))

----------------------------------------------------------------------------
(* Ball (models/ball.py) *)

radius == 110
min_speed == 50
lin_drag_per_s == 1500

Ball == [x |-> 0, y |-> 0, vx |-> 0, vy |-> 0]

\* a ball without drag
_time_invariant_damping_none(dt) == ExpScale

\* Ball._time_invariant_damping: exp(-k dt), scaled by ExpScale
_time_invariant_damping(dt) == ExpNeg(DivR(Max(0, lin_drag_per_s) * dt, 1000))

\* a ball that is integrated and damped, and never clipped
BallUpdate_unbounded(b, dt, field_half_w, field_half_h) ==
    IF dt <= 0 THEN b
    ELSE
    LET Damped(vx1, vy1) ==
            LET slow == vx1 * vx1 + vy1 * vy1 < min_speed * min_speed
            IN [x |-> b.x + DivR(b.vx * dt, 1000), y |-> b.y + DivR(b.vy * dt, 1000),
                vx |-> IF slow THEN 0 ELSE vx1, vy |-> IF slow THEN 0 ELSE vy1]
        Decayed(damp) == Damped(DivR(b.vx * damp, ExpScale), DivR(b.vy * damp, ExpScale))
    IN Decayed(_time_invariant_damping(dt))

\* Ball.update in boundary_mode "clip" (the mode World.update uses)
BallUpdate(b, dt, field_half_w, field_half_h) ==
    IF dt <= 0 THEN b
    ELSE
    LET max_x == field_half_w - radius
        max_y == field_half_h - radius
        \* the "clip" boundary on the integrated position and damped velocity
        Clipped(x1, y1, vx2, vy2) ==
            [x |-> IF x1 > max_x THEN max_x ELSE IF x1 < -max_x THEN -max_x ELSE x1,
             vx |-> IF x1 > max_x \/ x1 < -max_x THEN 0 ELSE vx2,
             y |-> IF y1 > max_y THEN max_y ELSE IF y1 < -max_y THEN -max_y ELSE y1,
             vy |-> IF y1 > max_y \/ y1 < -max_y THEN 0 ELSE vy2]
        Damped(vx1, vy1) ==
            LET slow == vx1 * vx1 + vy1 * vy1 < min_speed * min_speed
            IN Clipped(b.x + DivR(b.vx * dt, 1000), b.y + DivR(b.vy * dt, 1000),
                       IF slow THEN 0 ELSE vx1, IF slow THEN 0 ELSE vy1)
        Decayed(damp) == Damped(DivR(b.vx * damp, ExpScale), DivR(b.vy * damp, ExpScale))
    IN Decayed(_time_invariant_damping(dt))

----------------------------------------------------------------------------
(* World (models/world.py): configuration and roster order *)

field_w == 22000
field_h == 14000
cone_dist_on == 350
cone_angle_on_deg == 40
cone_dist_off == 450
cone_angle_off_deg == 60
sticky_enabled == TRUE
sticky_ball_radius == 110
sticky_gap == 15
sticky_clip_field == TRUE

half_w == field_w \div 2
half_h == field_h \div 2

\* World() and Robot(): the configuration the dataclass defaults give
Defaults == [field_w |-> field_w, field_h |-> field_h, max_speed |-> max_speed]

Sides == <<"left", "right">>
Other(side) == IF side = "left" THEN "right" ELSE "left"

RECURSIVE SortedIds(_)
SortedIds(S) ==
    IF S = {} THEN <<>>
    ELSE LET m == CHOOSE a \in S : \A b \in S : a <= b
         IN <<m>> \o SortedIds(S \ {m})

\* team.robots.keys() of one side, in insertion (ascending id) order
TeamKeys(R, side) ==
    LET ids == SortedIds({k[2] : k \in {q \in DOMAIN R : q[1] = side}})
    IN [n \in 1..Len(ids) |-> <<side, ids[n]>>]

\* World.all_robots(): left team, then right team
all_robots(R) == TeamKeys(R, "left") \o TeamKeys(R, "right")

----------------------------------------------------------------------------
(* Team (models/team.py): one team object.  robots is the dict as the       *)
(* sequence of its [robot_id, robot] items in insertion order; goalie_id is *)
(* <<>> for None and <<id>> otherwise.                                       *)

\* Team(team_id)
EmptyTeam == [robots |-> <<>>, goalie_id |-> <<>>, _next_robot_id |-> 1]

\* list(team.robots.keys())
Keys(tm) == [n \in DOMAIN tm.robots |-> tm.robots[n].robot_id]

\* robot_id in team.robots
InTeam(tm, rid) == \E n \in DOMAIN tm.robots : tm.robots[n].robot_id = rid

\* d[robot_id] = robot: an existing key keeps its place, a new key goes last
DictSet(d, rid, robot) ==
    IF \E n \in DOMAIN d : d[n].robot_id = rid
    THEN [n \in DOMAIN d |-> IF d[n].robot_id = rid
                             THEN [robot_id |-> rid, robot |-> robot] ELSE d[n]]
    ELSE Append(d, [robot_id |-> rid, robot |-> robot])

\* Team._alloc_id(): the id returned and the team it leaves
Team_alloc_id(tm) ==
    [rid |-> tm._next_robot_id, team |-> [tm EXCEPT !._next_robot_id = @ + 1]]

\* an add_robot whose explicit ids leave the id counter alone
Team_add_robot_nobump(tm, robot_id) ==
    LET Added(rid, tm1) ==
            [tm1 EXCEPT !.robots = DictSet(@, rid, Robot),
                        !.goalie_id = IF @ = <<>> THEN <<rid>> ELSE @]
        Auto(a) == Added(a.rid, a.team)
    IN IF robot_id = <<>> THEN Auto(Team_alloc_id(tm)) ELSE Added(robot_id[1], tm)

\* Team.add_robot(robot_id = None or an id) with a default Robot()
Team_add_robot(tm, robot_id) ==
    LET Added(rid, tm1) ==
            [tm1 EXCEPT !.robots = DictSet(@, rid, Robot),
                        !.goalie_id = IF @ = <<>> THEN <<rid>> ELSE @]
        Auto(a) == Added(a.rid, a.team)
    IN IF robot_id = <<>>
       THEN Auto(Team_alloc_id(tm))
       ELSE Added(robot_id[1],
                  [tm EXCEPT !._next_robot_id = Max(@, robot_id[1] + 1)])

\* a remove_robot that leaves goalie_id alone
Team_remove_robot_keep(tm, rid) ==
    [tm EXCEPT !.robots = SelectSeq(@, LAMBDA e : e.robot_id # rid)]

\* Team.remove_robot(robot_id)
Team_remove_robot(tm, rid) ==
    LET Popped(d) ==
            [tm EXCEPT !.robots = d,
                       !.goalie_id = IF @ = <<rid>>
                                     THEN (IF d = <<>> THEN <<>> ELSE <<d[1].robot_id>>)
                                     ELSE @]
    IN Popped(SelectSeq(tm.robots, LAMBDA e : e.robot_id # rid))

\* Team.set_active(robot_id, flag)
Team_set_active(tm, rid, flag) ==
    [tm EXCEPT !.robots = [n \in DOMAIN @ |-> IF @[n].robot_id = rid
                                              THEN [@[n] EXCEPT !.robot.active = flag]
                                              ELSE @[n]]]

\* Team.set_goalie(robot_id)
Team_set_goalie(tm, rid) == IF InTeam(tm, rid) THEN [tm EXCEPT !.goalie_id = <<rid>>] ELSE tm

\* for _ in range(k): self.add_robot()
RECURSIVE AddDefault(_, _)
AddDefault(tm, k) == IF k <= 0 THEN tm ELSE AddDefault(Team_add_robot(tm, <<>>), k - 1)

\* for rid in ids: self.remove_robot(rid)
RECURSIVE RemoveEach(_, _)
RemoveEach(tm, ids) ==
    IF ids = <<>> THEN tm ELSE RemoveEach(Team_remove_robot(tm, Head(ids)), Tail(ids))

\* sorted(ids, reverse=True)
Descending(ids) == [n \in DOMAIN ids |-> ids[Len(ids) + 1 - n]]

\* an ensure_size that removes the lowest ids first
Team_ensure_size_lowest(tm, n) ==
    LET Sized(n1, current) ==
            IF current < n1 THEN AddDefault(tm, n1 - current)
            ELSE IF current > n1
            THEN RemoveEach(tm, SubSeq(SortedIds(Range(Keys(tm))), 1, current - n1))
            ELSE tm
    IN Sized(Max(1, n), Len(tm.robots))

\* Team.ensure_size(n)
Team_ensure_size(tm, n) ==
    LET Sized(n1, current) ==
            IF current < n1 THEN AddDefault(tm, n1 - current)
            ELSE IF current > n1
            THEN RemoveEach(tm, SubSeq(Descending(SortedIds(Range(Keys(tm)))), 1, current - n1))
            ELSE tm
    IN Sized(Max(1, n), Len(tm.robots))

----------------------------------------------------------------------------
(* Collision resolver (simulation/collisions.py) *)

iterations == 6
clearance == 10
restitution == 0
limit_push_per_iter == 100

\* the outcomes of random.random() * 2 pi the model draws from
RandomAngles == {0, 90, 180, 270}

\* clamp_robot_inside_field in a world whose half_w, half_h are hw, hh
clamp_robot_inside(r, hw, hh) ==
    LET Clamped(e) == [r EXCEPT !.x = _clamp(r.x, -hw + e, hw - e),
                                !.y = _clamp(r.y, -hh + e, hh - e)]
    IN Clamped(half_extents_xy(r))

clamp_robot_inside_field(r) == clamp_robot_inside(r, half_w, half_h)

\* robots = [r for r in world.all_robots() if r.active], as roster keys
ActiveKeys(R) == SelectSeq(all_robots(R), LAMBDA k : R[k].active)

radii(r) == outer_radius + clearance \div 2

\* the body of the loop over j for the pair (ki, kj); (xi, yi) is the position
\* of robot ki read before the loop over j started
\* a pair loop that never pushes
ResolvePair_nopush(R, ki, kj, xi, yi, ang) == R

ResolvePair(R, ki, kj, xi, yi, ang) ==
    LET dx0 == R[kj].x - xi
        dy0 == R[kj].y - yi
        coincident == dx0 * dx0 + dy0 * dy0 = 0
        \* the nudge of two coincident centres along a random direction
        Nudged(ex, ey) == [R EXCEPT ![ki].x = @ - ex, ![ki].y = @ - ey,
                                    ![kj].x = @ + ex, ![kj].y = @ + ey]
        \* the positional push and the velocity impulse along the normal (nx, ny)
        Pushed(R1, min_d, d, nx, ny) ==
            LET overlap == min_d - d
                push2 == Min(overlap, 2 * limit_push_per_iter)     \* twice the push
                px == DivR(nx * push2, 2 * Unit)
                py == DivR(ny * push2, 2 * Unit)
                vn == DivR((R1[kj].vx - R1[ki].vx) * nx + (R1[kj].vy - R1[ki].vy) * ny, Unit)
                j_imp == DivR(-(Unit + restitution) * vn, 2 * Unit)
                jx == IF vn < 0 THEN DivR(nx * j_imp, Unit) ELSE 0
                jy == IF vn < 0 THEN DivR(ny * j_imp, Unit) ELSE 0
            IN [R1 EXCEPT ![ki].x = @ - px, ![ki].y = @ - py,
                          ![kj].x = @ + px, ![kj].y = @ + py,
                          ![ki].vx = @ - jx, ![ki].vy = @ - jy,
                          ![kj].vx = @ + jx, ![kj].vy = @ + jy]
        Apart(R1, dx, dy, d, min_d) ==
            IF d >= min_d THEN R1
            ELSE Pushed(R1, min_d, d, IF d > 0 THEN DivR(dx * Unit, d) ELSE Unit,
                                      IF d > 0 THEN DivR(dy * Unit, d) ELSE 0)
        Measured(R1, dx, dy) ==
            Apart(R1, dx, dy, Sqrt(dx * dx + dy * dy), radii(R[ki]) + radii(R[kj]))
        Resolved(R1) == Measured(R1, IF coincident THEN R1[kj].x - R1[ki].x ELSE dx0,
                                     IF coincident THEN R1[kj].y - R1[ki].y ELSE dy0)
    IN Resolved(IF coincident THEN Nudged(DivR(Cos(ang), Unit), DivR(Sin(ang), Unit)) ELSE R)

RECURSIVE InnerLoop(_, _, _, _, _, _, _)
InnerLoop(R, keys, i, j, xi, yi, ang) ==
    IF j > Len(keys) THEN R
    ELSE InnerLoop(ResolvePair(R, keys[i], keys[j], xi, yi, ang), keys, i, j + 1, xi, yi, ang)

RECURSIVE OuterLoop(_, _, _, _, _)
OuterLoop(R, keys, order, a, ang) ==
    IF a > Len(order) THEN R
    ELSE LET i == order[a]
         IN OuterLoop(InnerLoop(R, keys, i, i + 1, R[keys[i]].x, R[keys[i]].y, ang),
                      keys, order, a + 1, ang)

ClampAll(R) == [k \in DOMAIN R |-> IF R[k].active THEN clamp_robot_inside_field(R[k]) ELSE R[k]]

\* one relaxation pass: the pairs in the shuffled order, then the field clamp
RelaxationPass(R, order, ang) == ClampAll(OuterLoop(R, ActiveKeys(R), order, 1, ang))

\* the outcomes of random.shuffle(order)
Shuffles(n) == {f \in [1..n -> 1..n] : \A a, b \in 1..n : a # b => f[a] # f[b]}

MovedByClamp(R) == {k \in DOMAIN R : R[k].active /\ clamp_robot_inside_field(R[k]) # R[k]}

----------------------------------------------------------------------------
(* World._update_possession_and_anchor *)

\* the first key of keys (in order) that minimises d2, strictly-smaller wins
RECURSIVE NearestIter(_, _, _, _, _)
NearestIter(keys, D2(_), n, best, best_d2) ==
    IF n > Len(keys) THEN best
    ELSE IF best = <<>> \/ D2(keys[n]) < best_d2
         THEN NearestIter(keys, D2, n + 1, keys[n], D2(keys[n]))
         ELSE NearestIter(keys, D2, n + 1, best, best_d2)

\* <<>> stands for None
Nearest(keys, D2(_)) == NearestIter(keys, D2, 1, <<>>, 0)

First(keys) == IF Len(keys) = 0 THEN <<>> ELSE keys[1]

Dist2(r, bx, by) == (r.x - bx) * (r.x - bx) + (r.y - by) * (r.y - by)

\* step 1: the first robot flagged has_ball that still sees the ball in the 'off' cone
KeptHolder(R, b) ==
    First(SelectSeq(all_robots(R), LAMBDA k :
        R[k].has_ball /\ sees_ball_front(R[k], b.x, b.y, cone_dist_off, cone_angle_off_deg)))

\* step 2: the nearest active robot that sees the ball in the 'on' cone
NewHolder(R, b) ==
    Nearest(SelectSeq(all_robots(R), LAMBDA k :
                R[k].active /\ sees_ball_front(R[k], b.x, b.y, cone_dist_on, cone_angle_on_deg)),
            LAMBDA k : Dist2(R[k], b.x, b.y))

HolderOf(R, b) ==
    LET Keep(kept) == IF kept # <<>> THEN kept ELSE NewHolder(R, b)
    IN Keep(KeptHolder(R, b))

Anchor(r) ==
    LET Clipped(a) ==
            [x |-> IF sticky_clip_field
                   THEN Max(-half_w + sticky_ball_radius, Min(half_w - sticky_ball_radius, a.ax))
                   ELSE a.ax,
             y |-> IF sticky_clip_field
                   THEN Max(-half_h + sticky_ball_radius, Min(half_h - sticky_ball_radius, a.ay))
                   ELSE a.ay,
             vx |-> a.avx, vy |-> a.avy]
    IN Clipped(dribble_anchor(r, sticky_ball_radius, sticky_gap))

CooldownAfter(kc, dt) == IF kc > 0 THEN Max(0, kc - dt) ELSE kc

\* [robots, ball, kick_cooldown] after _update_possession_and_anchor(dt)
_update_possession_and_anchor(R, b, kc, dt) ==
    LET kc1 == CooldownAfter(kc, dt)
        Held(holder) ==
            [robots |-> [k \in DOMAIN R |-> [R[k] EXCEPT !.has_ball = (k = holder)]],
             ball |-> IF sticky_enabled /\ holder # <<>> THEN Anchor(R[holder]) ELSE b,
             kick_cooldown |-> kc1]
    IN IF kc1 > 0
       THEN [robots |-> [k \in DOMAIN R |-> [R[k] EXCEPT !.has_ball = FALSE]],
             ball |-> b, kick_cooldown |-> kc1]
       ELSE Held(HolderOf(R, b))

\* Team.update of the left team, then of the right team
TeamsUpdate(R, dt) == [k \in DOMAIN R |-> RobotUpdate(R[k], dt)]

----------------------------------------------------------------------------
(* Positioning behaviours (actions/positioning.py) *)

GOAL_WIDTH == 2400

_sign(side) == IF side = "left" THEN 1 ELSE -1

\* <<x, y>>
distorted_theoretical_xy(side, x, y) ==
    LET s == _sign(side)
        tt == DivR((x * s + half_w) * Unit, 2 * half_w)
        k == Unit - DivR(350 * tt, Unit)
        max_y == DivR(k * (half_h - 500), Unit)
    IN <<_clamp(x, -half_w + 500, half_w - 500), _clamp(y, -max_y, max_y)>>

\* <<x, y>>
kickoff_restricted(st, side, x, y) ==
    LET x2 == IF st # "playing"
              THEN (IF _sign(side) = 1 THEN Min(x, 0) ELSE Max(x, 0))
              ELSE x
        inside == st \in {"kickoff_left", "kickoff_right"} /\ x2 * x2 + y * y < 1000 * 1000
        OnCircle(ang) == <<DivR(1000 * Cos(ang), Unit), DivR(1000 * Sin(ang), Unit)>>
    IN IF inside THEN OnCircle(Atan2(y, x2))
       ELSE <<x2, y>>

\* robot.command_face_point(fx, fy); robot.command_move_towards(tx, ty, speed)
FaceThenMove(r, fx, fy, tx, ty, speed) ==
    command_move_towards(command_face_point(r, fx, fy), tx, ty, speed)

Restricted(st, side, x, y) ==
    LET Kickoff(p) == kickoff_restricted(st, side, p[1], p[2])
    IN Kickoff(distorted_theoretical_xy(side, x, y))

\* PositioningPlayingBall(offset_back=1.2, offset_side=0.8).step
PositioningPlayingBall(st, b, side, r) ==
    LET tx == b.x - _sign(side) * 1200
        ty == b.y + (IF b.y <= 0 THEN 800 ELSE -800)
        Go(p) == FaceThenMove(r, b.x, b.y, p[1], p[2], 1600)
    IN Go(Restricted(st, side, tx, ty))

\* PositioningAssist(radial=2.5, angle_deg=35).step for the robot with id rid
PositioningAssist(st, b, side, rid, r) ==
    LET goal_x == IF _sign(side) > 0 THEN half_w ELSE -half_w
        Go(p) == FaceThenMove(r, b.x, b.y, p[1], p[2], 1600)
        Target(ang) == Go(Restricted(st, side, b.x + DivR(2500 * Cos(ang), Unit),
                                               b.y + DivR(2500 * Sin(ang), Unit)))
    IN Target(Atan2(0 - b.y, goal_x - b.x) + (IF rid % 2 = 0 THEN 35 ELSE -35))

\* PositioningDefense(depth).step
PositioningDefense(st, b, side, r, depth) ==
    LET goal_x == IF _sign(side) > 0 THEN -half_w ELSE half_w
        Go(p) == FaceThenMove(r, b.x, b.y, p[1], p[2], 1600)
        Target(ang) == Go(Restricted(st, side, b.x - DivR(depth * Cos(ang), Unit),
                                               b.y - DivR(depth * Sin(ang), Unit)))
    IN Target(Atan2(b.y - 0, b.x - goal_x))

\* GoalKeeping(line_depth=0.4).step
GoalKeeping(b, side, r) ==
    LET xg == IF _sign(side) > 0 THEN -half_w + 400 ELSE half_w - 400
        yg == _clamp(b.y, -(GOAL_WIDTH \div 2), GOAL_WIDTH \div 2)
    IN FaceThenMove(r, b.x, b.y, xg, yg, 1800)

capture_dist == 350
front_cone_deg == 45
glue_epsilon == 10

\* the capture condition of SeekBall.step
SeekCaptures(r, b) ==
    LET dx == b.x - r.x
        dy == b.y - r.y
    IN /\ dx * dx + dy * dy <= capture_dist * capture_dist
       /\ Abs(_wrap_pi(Atan2(dy, dx) - r.theta)) <= front_cone_deg

\* SeekBall(approach_speed=1.8, capture_dist=0.35).step: [robot, ball]
SeekBall(b, r) ==
    LET dfront == half_side + radius - glue_epsilon
        Capture(r1) ==
            IF SeekCaptures(r1, b)
            THEN [robot |-> [r1 EXCEPT !.has_ball = TRUE],
                  ball |-> [x |-> r1.x + DivR(dfront * Cos(r1.theta), Unit),
                            y |-> r1.y + DivR(dfront * Sin(r1.theta), Unit),
                            vx |-> r1.vx, vy |-> r1.vy]]
            ELSE [robot |-> r1, ball |-> b]
    IN Capture(FaceThenMove(r, b.x, b.y, b.x, b.y, 1800))

----------------------------------------------------------------------------
(* Action planning (actions/planning.py) *)

EXEC_DIST == 200
EXEC_ANG_DEG == 25
PASS_SPEED == 6000
SHOT_SPEED == 7500
BALL_RADIUS == 110
KickCooldown == 250

\* stands for float("inf")
Inf == 10 ^ 6

\* a Location, and the record that stands for "no Location" (None)
Location(x, y, theta) == [x |-> x, y |-> y, theta |-> theta, nil |-> FALSE]
NoLoc == [x |-> 0, y |-> 0, theta |-> 0, nil |-> TRUE]

\* stands for "no ActionQValue" (None)
None == [sub |-> "None", env |-> NoLoc, tgt |-> NoLoc]

default_types == <<"TryToShoot", "TryToPass", "TryToDeepPass", "TryToDribble">>

\* a tolerance test that looks at the distance only
can_execute_at_near(r, target) ==
    (r.x - target.x) * (r.x - target.x) + (r.y - target.y) * (r.y - target.y)
        <= EXEC_DIST * EXEC_DIST

can_execute_at(r, target) ==
    /\ (r.x - target.x) * (r.x - target.x) + (r.y - target.y) * (r.y - target.y)
           <= EXEC_DIST * EXEC_DIST
    /\ Abs(_wrap_pi(target.theta - r.theta)) <= EXEC_ANG_DEG

\* <<x, y>>
_place_ball_in_front(r) ==
    LET front == half_side + BALL_RADIUS + 20
    IN <<r.x + DivR(Cos(r.theta) * front, Unit), r.y + DivR(Sin(r.theta) * front, Unit)>>

\* the ball after ball.set_pos(bx, by); ball.kick(speed, ang)
Kicked(bx, by, speed, ang) ==
    [x |-> bx, y |-> by, vx |-> DivR(speed * Cos(ang), Unit), vy |-> DivR(speed * Sin(ang), Unit)]

\* [robots, ball, kick_cooldown] after exec_shoot(world, team, robot)
exec_shoot(R, side, key) ==
    LET goal_x == IF side = "left" THEN half_w ELSE -half_w
        Shot(p) == [robots |-> [R EXCEPT ![key].has_ball = FALSE],
                    ball |-> Kicked(p[1], p[2], SHOT_SPEED, Atan2(0 - p[2], goal_x - p[1])),
                    kick_cooldown |-> KickCooldown]
    IN Shot(_place_ball_in_front(R[key]))

\* [robots, ball, kick_cooldown] after exec_pass(world, team, robot, (tx, ty))
exec_pass(R, side, key, tx, ty) ==
    LET Passed(p) == [robots |-> [R EXCEPT ![key].has_ball = FALSE],
                      ball |-> Kicked(p[1], p[2], PASS_SPEED, Atan2(ty - p[2], tx - p[1])),
                      kick_cooldown |-> KickCooldown]
    IN Passed(_place_ball_in_front(R[key]))

\* One outcome of the random.random() draws of one sampler call: draw.jx and
\* draw.jy stand for (random.random() - 0.5), in thousandths.
\* Sequence of [loc, cur]: the jittered base point, then the tracked point and
\* its ring.
determine_action_possible_locations(base, rosace, rad, nb_pts_test_base, nb_pts_test_rosace, draw) ==
    LET basePts == IF nb_pts_test_base > 0
                   THEN << [loc |-> Location(base.x + DivR(draw.jx * rad, Unit),
                                             base.y + DivR(draw.jy * rad, Unit), 0),
                            cur |-> FALSE] >>
                   ELSE << >>
        n == Max(1, nb_pts_test_rosace)
        r_small == 200
        dist == r_small + DivR(draw.jy * r_small, Unit)
        ring == [k \in 1..n |->
                   LET ang == DivR(360 * (k - 1), n) + DivR(draw.jx * 180, n * Unit)
                   IN [loc |-> Location(rosace.x + DivR(dist * Cos(ang), Unit),
                                        rosace.y + DivR(dist * Sin(ang), Unit),
                                        rosace.theta),
                       cur |-> FALSE]]
    IN IF rosace = NoLoc THEN basePts
       ELSE basePts \o << [loc |-> rosace, cur |-> TRUE] >> \o ring

_goal_x_for(side) == IF side = "left" THEN half_w ELSE -half_w

\* the active robots of the opponent team, as keys
Opponents(R, side) == SelectSeq(TeamKeys(R, Other(side)), LAMBDA k : R[k].active)

RECURSIVE MinOver(_, _, _, _)
MinOver(keys, F(_), n, best) ==
    IF n > Len(keys) THEN best
    ELSE MinOver(keys, F, n + 1, IF F(keys[n]) < best THEN F(keys[n]) ELSE best)

_nearest_opponent_dist(R, side, x, y) ==
    MinOver(Opponents(R, side), LAMBDA k : Hypot(x - R[k].x, y - R[k].y), 1, Inf)

\* dot / L2 clamped to [0, 1], in 1024ths (binary long division, no overflow)
RECURSIVE BinFrac(_, _, _, _)
BinFrac(rem, den, bit, acc) ==
    IF bit = 0 THEN acc
    ELSE IF 2 * rem >= den THEN BinFrac(2 * rem - den, den, bit \div 2, acc + bit)
         ELSE BinFrac(2 * rem, den, bit \div 2, acc)

\* the distance part of _seg_point_distance(p0, p1, p)
_seg_point_distance(x0, y0, x1, y1, x, y) ==
    LET vx == x1 - x0
        vy == y1 - y0
        L2 == vx * vx + vy * vy
        dot == (x - x0) * vx + (y - y0) * vy
        tt == IF dot <= 0 THEN 0 ELSE IF dot >= L2 THEN 1024 ELSE BinFrac(dot, L2, 512, 0)
    IN IF L2 = 0 THEN Hypot(x - x0, y - y0)
       ELSE Hypot(x - (x0 + DivR(tt * vx, 1024)), y - (y0 + DivR(tt * vy, 1024)))

\* the min_d part of ray_clearance_metric
ray_clearance_metric(R, side, x0, y0, x1, y1) ==
    LET L == Max(1, Hypot(x1 - x0, y1 - y0))
        m == MinOver(Opponents(R, side),
                     LAMBDA k : _seg_point_distance(x0, y0, x1, y1, R[k].x, R[k].y), 1, Inf)
    IN IF m = Inf THEN L ELSE m

linear_in_interval(x, x0, x1, y0, y1) ==
    IF x <= x0 THEN y0
    ELSE IF x >= x1 THEN y1
    ELSE y0 + DivR((y1 - y0) * (x - x0), x1 - x0)

\* scaled by Unit; goal_half_height = 1.2
evaluate_goal_opening_angle(side, tx, ty) ==
    LET goal_x == _goal_x_for(side)
        hi == Atan2(1200 - ty, goal_x - tx)
        lo == Atan2(-1200 - ty, goal_x - tx)
    IN linear_in_interval(Abs(_wrap_pi(hi - lo)), 0, 60, 200, Unit)

\* the reward part of evaluate_shoot, scaled by Unit (it does not depend on goal_y)
evaluate_shoot(side, sx, sy, startx, starty) ==
    LET d_carry == Hypot(startx - sx, starty - sy)
        r1 == linear_in_interval(d_carry, 2500, 3000, Unit, 0)
        r2 == linear_in_interval(d_carry, 0, 3000, Unit, 800)
        r3 == evaluate_goal_opening_angle(side, sx, sy)
    IN IF sx * _sign(side) <= 0 THEN 0
       ELSE Max(0, DivR(DivR(r1 * r2, Unit) * r3, Unit))

\* the reward part of evaluate_pass(pass_from = (fx, fy), teammate at (mx, my)), scaled by Unit
evaluate_pass(R, side, fx, fy, mx, my) ==
    LET d == Hypot(fx - mx, fy - my)
        space == _nearest_opponent_dist(R, side, mx, my)
        min_d == ray_clearance_metric(R, side, fx, fy, mx, my)
        range_bonus == Max(0, Unit - DivR(d, 10))
        space_bonus == Min(DivR(space, 2), Unit)
        near == Unit - Min(Unit, DivR(min_d * Unit, 600))
    IN Max(0, DivR(2200 * range_bonus + 2800 * space_bonus - 1500 * near, Unit))

\* the reward part of evaluate_dribble, scaled by Unit
evaluate_dribble(R, side, fx, fy, tx, ty) ==
    LET progress == _sign(side) * (tx - fx)
        space == _nearest_opponent_dist(R, side, tx, ty)
    IN Max(0, DivR(8 * progress + 12 * Min(space, 2000), 10))

\* the reward part of evaluate_deep_pass, scaled by Unit
evaluate_deep_pass(R, side, fx, fy, rx, ry) ==
    Max(0, DivR(5 * evaluate_pass(R, side, fx, fy, rx, ry)
                + 8 * evaluate_shoot(side, rx, ry, fx, fy), 10))

\* the outcomes of (random.random() - 0.5), in thousandths, the model draws from
JitterSet == {-300, 0}
Draws == {[jx |-> a, jy |-> -a] : a \in JitterSet}


\* key of the sticky memory: rid * 10000 + MovingWithBall * 100 + sub, per planner
_key(side, rid, sub) == <<side, rid, sub>>

\* instant types that ignore the robot's entry
instant_types_all(team_possible_actions, key) == Range(default_types)

\* instant_types: the default types allowed for the robot (all of them when
\* team_possible_actions has no entry for it)
instant_types_of(team_possible_actions, key) ==
    LET allowedSet == IF key \in DOMAIN team_possible_actions
                      THEN team_possible_actions[key]
                      ELSE Range(default_types)
    IN {a \in Range(default_types) : a \in allowedSet}

\* the ActionQValue records build_move_with_ball_actions returns for one outcome
\* of the sampler's draws: [sub, env, tgt]
build_move_with_ball_actions(R, side, rid, team_possible_actions, imagined_optimal_long_actions, draw) ==
    IF <<side, rid>> \notin DOMAIN R THEN {}
    ELSE
    LET r == R[<<side, rid>>]
        goal_x == _goal_x_for(side)
        sign == _sign(side)
        instant_types == instant_types_of(team_possible_actions, <<side, rid>>)
        M == imagined_optimal_long_actions
        ref(inst) == IF _key(side, rid, inst) \in DOMAIN M THEN M[_key(side, rid, inst)] ELSE None
        rosace_loc(inst) == ref(inst).env
        target_ref(inst) == ref(inst).tgt
        here == Location(r.x, r.y, r.theta)
        possible(inst) ==
            IF inst = "TryToShoot"
            THEN determine_action_possible_locations(
                     Location(DivR(sign * field_w, 4), 0, 0), rosace_loc(inst), 10000, 4, 4, draw)
                 \o determine_action_possible_locations(here, NoLoc, 2000, 3, 0, draw)
            ELSE IF inst = "TryToDribble"
            THEN determine_action_possible_locations(here, rosace_loc(inst), 10000, 4, 5, draw)
            ELSE IF inst = "TryToPass"
            THEN determine_action_possible_locations(here, rosace_loc(inst), 11000, 5, 3, draw)
            ELSE determine_action_possible_locations(here, target_ref(inst), 11000, 5, 3, draw)
        inField(inst) == {c.loc : c \in {q \in Range(possible(inst)) :
                                          Abs(q.loc.x) <= half_w /\ Abs(q.loc.y) <= half_h}}
        mates == {k \in DOMAIN R : k[1] = side /\ k[2] # rid /\ R[k].active}
        shoot == {[sub |-> "TryToShoot",
                   env |-> Location(loc.x, loc.y, Atan2(-1000 - loc.y, goal_x - loc.x)),
                   tgt |-> NoLoc] :
                  loc \in {l \in inField("TryToShoot") : evaluate_shoot(side, l.x, l.y, r.x, r.y) > 0}}
        pass == {[sub |-> "TryToPass",
                  env |-> Location(c[1].x, c[1].y, Atan2(R[c[2]].y - c[1].y, R[c[2]].x - c[1].x)),
                  tgt |-> Location(R[c[2]].x, R[c[2]].y, 0)] :
                 c \in {q \in inField("TryToPass") \X mates :
                          evaluate_pass(R, side, q[1].x, q[1].y, R[q[2]].x, R[q[2]].y) > 0}}
        deep == {[sub |-> "TryToDeepPass",
                  env |-> Location(r.x, r.y, Atan2(loc.y - r.y, loc.x - r.x)),
                  tgt |-> Location(loc.x, loc.y, 0)] :
                 loc \in {l \in inField("TryToDeepPass") :
                            evaluate_deep_pass(R, side, r.x, r.y, l.x, l.y) > 0}}
        dribble == {[sub |-> "TryToDribble",
                     env |-> Location(loc.x, loc.y, Atan2(loc.y - r.y, loc.x - r.x)),
                     tgt |-> NoLoc] :
                    loc \in {l \in inField("TryToDribble") :
                               evaluate_dribble(R, side, r.x, r.y, l.x, l.y) > 0}}
    IN (IF "TryToShoot" \in instant_types THEN shoot ELSE {})
       \cup (IF "TryToPass" \in instant_types THEN pass ELSE {})
       \cup (IF "TryToDeepPass" \in instant_types THEN deep ELSE {})
       \cup (IF "TryToDribble" \in instant_types THEN dribble ELSE {})

\* choose_best_action: None for an empty list; otherwise the candidate of highest
\* reward * probability among the sampled ones, which the model leaves open
\* (any candidate of the list may be the best of its sample)
choose_best_action(actions) == IF actions = {} THEN {None} ELSE actions

----------------------------------------------------------------------------
(* Strategy planner (controllers/strategy_planner_full.py).  W is the record   *)
(* [robots, ball, kick_cooldown, imagined] the pass reads and writes.          *)

SetDbg(r, name) == [r EXCEPT !.dbg_action = name]
Usable(W, key) == key \in DOMAIN W.robots /\ W.robots[key].active

_seek_ball(W, side, key) ==
    IF ~Usable(W, key) THEN W
    ELSE LET Stepped(o) == [W EXCEPT !.robots[key] = o.robot, !.ball = o.ball]
         IN Stepped(SeekBall(W.ball, SetDbg(W.robots[key], "SeekBall")))

_pos_playing_ball(W, st, side, key) ==
    IF ~Usable(W, key) THEN W
    ELSE [W EXCEPT !.robots[key] =
            PositioningPlayingBall(st, W.ball, side, SetDbg(@, "PositioningPlayingBall"))]

_assist(W, st, side, key) ==
    IF ~Usable(W, key) THEN W
    ELSE [W EXCEPT !.robots[key] =
            PositioningAssist(st, W.ball, side, key[2], SetDbg(@, "PositioningAssist"))]

_defend(W, st, side, key, depth) ==
    IF ~Usable(W, key) THEN W
    ELSE [W EXCEPT !.robots[key] =
            PositioningDefense(st, W.ball, side, SetDbg(@, "PositioningDefense"), depth)]

_goalkeep(W, side, key) ==
    IF ~Usable(W, key) THEN W
    ELSE [W EXCEPT !.robots[key] = GoalKeeping(W.ball, side, SetDbg(@, "GoalKeeping"))]

\* a planner that never finds its own holder
_find_holder_id_blind(R, side) == <<>>

_find_holder_id(R, side) ==
    First(SelectSeq(TeamKeys(R, side), LAMBDA k : R[k].active /\ R[k].has_ball))

_nearest_to_ball(R, b, side, exclude) ==
    Nearest(SelectSeq(TeamKeys(R, side), LAMBDA k : R[k].active /\ k \notin exclude),
            LAMBDA k : Dist2(R[k], b.x, b.y))

_select_goalkeeper(R, side) ==
    LET own_goal_x == IF side = "left" THEN -half_w ELSE half_w
    IN Nearest(TeamKeys(R, side), LAMBDA k : Abs(R[k].x - own_goal_x))

\* the commands and, within tolerance, the executor for the selected action
_act_with_ball(W, side, key, best) ==
    LET r == W.robots[key]
        goal_x == IF side = "left" THEN half_w ELSE -half_w
        env == best.env
        tgt == best.tgt
        W1 == [W EXCEPT !.imagined = [k \in DOMAIN @ \cup {_key(side, key[2], best.sub)} |->
                                        IF k = _key(side, key[2], best.sub) THEN best ELSE @[k]]]
        fire(r1) == r1.has_ball /\ can_execute_at(r1, env)
        kicked(R1, k) == [W1 EXCEPT !.robots = k.robots, !.ball = k.ball,
                                    !.kick_cooldown = k.kick_cooldown]
    IN IF best = None
       THEN [W EXCEPT !.robots[key] =
                command_move_towards(command_face_point(SetDbg(r, "FallbackDribble"), goal_x, 0),
                                     goal_x, 0, 1500)]
       ELSE IF best.sub = "TryToShoot"
       THEN LET Shoot(r1, R1) == IF fire(r1) THEN kicked(R1, exec_shoot(R1, side, key))
                                 ELSE [W1 EXCEPT !.robots = R1]
                Commanded(r1) == Shoot(r1, [W1.robots EXCEPT ![key] = r1])
            IN Commanded(command_face_point(
                   command_move_towards(SetDbg(r, best.sub), env.x, env.y, 1600), goal_x, 0))
       ELSE IF best.sub \in {"TryToPass", "TryToDeepPass"} /\ ~tgt.nil
       THEN LET Pass(r1, R1) == IF fire(r1) THEN kicked(R1, exec_pass(R1, side, key, tgt.x, tgt.y))
                                ELSE [W1 EXCEPT !.robots = R1]
                Commanded(r1) == Pass(r1, [W1.robots EXCEPT ![key] = r1])
            IN Commanded(command_face_point(
                   command_move_towards(SetDbg(r, best.sub), env.x, env.y, 1400), tgt.x, tgt.y))
       ELSE IF best.sub = "TryToDribble"
       THEN [W1 EXCEPT !.robots[key] =
                command_move_towards(command_face_point(SetDbg(r, best.sub), env.x, env.y),
                                     env.x, env.y, 1600)]
       ELSE [W1 EXCEPT !.robots[key] =
                command_move_towards(command_face_point(SetDbg(r, "FallbackMove"), goal_x, 0),
                                     goal_x, 0, 1200)]

RECURSIVE DefendAll(_, _, _, _, _, _)
DefendAll(W, st, side, keys, n, depth) ==
    IF n > Len(keys) THEN W
    ELSE DefendAll(_defend(W, st, side, keys[n], depth), st, side, keys, n + 1, depth)

Tail2(s, n) == SubSeq(s, n + 1, Len(s))

_attack_mode(W, st, side, gk_id, holder_id, best) ==
    LET \* for rid in others[:2]: assist; for rid in others[2:]: defend
        Assist(W3, others2) ==
            LET nAssist == Min(2, Len(others2))
                First_assist(W4) == IF nAssist >= 1 THEN _assist(W4, st, side, others2[1]) ELSE W4
                Second_assist(W5) == IF nAssist >= 2 THEN _assist(W5, st, side, others2[2]) ELSE W5
            IN DefendAll(Second_assist(First_assist(W3)), st, side,
                         Tail2(others2, nAssist), 1, 2500)
        \* if others: sup = others.pop(0); positioning around the ball
        Support(W2, others1) ==
            Assist(IF Len(others1) > 0 THEN _pos_playing_ball(W2, st, side, others1[1]) ELSE W2,
                   IF Len(others1) > 0 THEN Tail2(others1, 1) ELSE others1)
        \* if gk_id in others: goalkeep; others.remove(gk_id)
        Keeper(W1, others0) ==
            LET hasGk == gk_id \in Range(others0)
            IN Support(IF hasGk THEN _goalkeep(W1, side, gk_id) ELSE W1,
                       IF hasGk THEN SelectSeq(others0, LAMBDA k : k # gk_id) ELSE others0)
    IN Keeper(IF Usable(W, holder_id) THEN _act_with_ball(W, side, holder_id, best) ELSE W,
              SelectSeq(TeamKeys(W.robots, side), LAMBDA k : k # holder_id))

_defense_mode(W, st, side, gk_id, opp_holder_id) ==
    LET depth == IF opp_holder_id # <<>> THEN 2500 ELSE 2000
        \* the rest defend
        Rest(W2, chaser_id) ==
            DefendAll(W2, st, side,
                      SelectSeq(TeamKeys(W.robots, side),
                                LAMBDA k : W.robots[k].active /\ k # gk_id /\ k # chaser_id),
                      1, depth)
        \* the nearest other robot seeks the ball
        Chase(W1, chaser_id) ==
            Rest(IF chaser_id # <<>> THEN _seek_ball(W1, side, chaser_id) ELSE W1, chaser_id)
        Kept(W1) == Chase(W1, _nearest_to_ball(W1.robots, W1.ball, side, {gk_id}))
    IN Kept(_goalkeep(W, side, gk_id))

\* StrategyPlannerFull(side).decide(world), for the action best the holder's
\* planner selected (None when it has no candidate or the team has no holder)
decide(W, st, side, best) ==
    IF Len(TeamKeys(W.robots, side)) = 0 THEN W
    ELSE LET gk_id == _select_goalkeeper(W.robots, side)
             holder_id == _find_holder_id(W.robots, side)
             opp_holder == _find_holder_id(W.robots, Other(side))
         IN IF holder_id # <<>>
            THEN _attack_mode(W, st, side, gk_id, holder_id, best)
            ELSE _defense_mode(W, st, side, gk_id, opp_holder)

----------------------------------------------------------------------------
(* World: kick-off layout and match control (models/world.py, models/team.py) *)

\* Team.auto_position_kickoff: the template positions GK, DF, MF, MF, FW
Templates(side) ==
    LET s == IF side = "left" THEN 1 ELSE -1
    IN << <<-s * (half_w - 500), 0>>, <<-s * 6000, 0>>, <<-s * 3000, 2000>>,
          <<-s * 3000, -2000>>, <<-s * 1000, 0>> >>

clip_xy(p) == << Max(-half_w + 100, Min(half_w - 100, p[1])),
                 Max(-half_h + 100, Min(half_h - 100, p[2])) >>

IndexOf(seq, e) == CHOOSE n \in 1..Len(seq) : seq[n] = e

\* Team.auto_position_kickoff of both teams (goalie_id is the lowest id)
auto_position_kickoff(R) ==
    [k \in DOMAIN R |->
        LET n == IndexOf(TeamKeys(R, k[1]), k)
        IN IF n > Len(Templates(k[1])) THEN R[k]
           ELSE LET p == clip_xy(Templates(k[1])[n])
                    face_theta == IF k[1] = "left" THEN 0 ELSE 180
                IN stop(set_vel(set_pose(R[k], p[1], p[2], face_theta), 0, 0, 0))]

reset_ball_center(b) == [b EXCEPT !.x = 0, !.y = 0, !.vx = 0, !.vy = 0]

KickoffState(side) == IF side = "left" THEN "kickoff_left" ELSE "kickoff_right"

WorldNow == [robots |-> robots, ball |-> ball, kick_cooldown |-> kick_cooldown,
             t |-> t, score |-> score, state |-> state]

Idle == pc = "idle"

\* World.set_kickoff(side)
set_kickoff(side) ==
    /\ Idle
    /\ state' = KickoffState(side)
    /\ robots' = auto_position_kickoff(robots)
    /\ ball' = reset_ball_center(ball)
    /\ last' = "set_kickoff"
    /\ pre' = WorldNow
    /\ UNCHANGED <<team, added, config, goalie_id, kick_cooldown, t, score, pc, udt, iter, clamped, phases, passes, imagined,
                   allowed, args>>

\* a start() that only leaves a kick-off state
start_state_guarded(st) == IF st \in {"kickoff_left", "kickoff_right"} THEN "playing" ELSE st

\* the state start() sets: "if self.state.startswith('kickoff'): pass", then "playing"
start_state(st) == "playing"

\* World.start()
start ==
    /\ Idle
    /\ state' = start_state(state)
    /\ last' = "start"
    /\ pre' = WorldNow
    /\ UNCHANGED <<team, added, config, goalie_id, robots, ball, kick_cooldown, t, score, pc, udt, iter, clamped, phases,
                   passes, imagined, allowed, args>>

\* World.stop()
world_stop ==
    /\ Idle
    /\ state' = "stopped"
    /\ last' = "stop"
    /\ pre' = WorldNow
    /\ UNCHANGED <<team, added, config, goalie_id, robots, ball, kick_cooldown, t, score, pc, udt, iter, clamped, phases,
                   passes, imagined, allowed, args>>

\* World.halt()
halt ==
    /\ Idle
    /\ state' = "halt"
    /\ last' = "halt"
    /\ pre' = WorldNow
    /\ UNCHANGED <<team, added, config, goalie_id, robots, ball, kick_cooldown, t, score, pc, udt, iter, clamped, phases,
                   passes, imagined, allowed, args>>

\* the kick-off given to the scorer
KickoffAfterGoal_scorer(by_side) == by_side

\* the side that kicks off after by_side has scored
KickoffAfterGoal(by_side) == IF by_side = "left" THEN "right" ELSE "left"

\* World.goal_scored(by_side)
goal_scored(by_side) ==
    /\ Idle
    /\ score[by_side] < MaxScore
    /\ score' = [score EXCEPT ![by_side] = @ + 1]
    /\ state' = KickoffState(KickoffAfterGoal(by_side))
    /\ robots' = auto_position_kickoff(robots)
    /\ ball' = reset_ball_center(ball)
    /\ last' = "goal_scored_" \o by_side
    /\ pre' = WorldNow
    /\ UNCHANGED <<team, added, config, goalie_id, kick_cooldown, t, pc, udt, iter, clamped, phases, passes, imagined,
                   allowed, args>>

----------------------------------------------------------------------------
(* StrategyPlannerFull(side).decide(world) as one step *)

\* the dt arguments the model calls World.update with (ms); DT of the run loop is 50
TickMs == 50
DtSet == {-TickMs, 0, TickMs}

\* the worlds one decide pass of side can leave, each with the action
\* choose_best_action returned, over the sampler's draws
DecideOutcomes(side) ==
    LET holder_id == _find_holder_id(robots, side)
        W == [robots |-> robots, ball |-> ball, kick_cooldown |-> kick_cooldown,
              imagined |-> imagined]
        bests(draw) == IF holder_id = <<>> THEN {None}
                       ELSE choose_best_action(
                              build_move_with_ball_actions(robots, side, holder_id[2],
                                                           allowed, imagined, draw))
    IN UNION {{[world |-> decide(W, state, side, best), best |-> best] : best \in bests(draw)} :
                 draw \in Draws}

Decide(side) ==
    /\ Idle
    /\ passes < MaxPasses
    /\ t < MaxTicks * TickMs
    /\ \E o \in DecideOutcomes(side) :
         /\ robots' = o.world.robots
         /\ ball' = o.world.ball
         /\ kick_cooldown' = o.world.kick_cooldown
         /\ imagined' = o.world.imagined
         /\ args' = [op |-> "decide", side |-> side, best |-> o.best, imagined |-> imagined]
    /\ passes' = passes + 1
    /\ last' = "decide_" \o side
    /\ pre' = WorldNow
    /\ UNCHANGED <<team, added, config, goalie_id, t, score, state, pc, udt, iter, clamped, phases, allowed>>

----------------------------------------------------------------------------
(* World.update(dt), phase by phase *)

\* an early return that lets dt = 0 through
UpdateGuard_strict(dt) == dt < 0

\* "if dt <= 0.0: return"
UpdateGuard(dt) == dt <= 0

\* possession decided before the collisions are resolved
NextPhase_swapped(p) ==
    CASE p = "kin" -> "poss"
      [] p = "poss" -> "coll"
      [] p = "coll" -> "ball"
      [] p = "ball" -> "idle"

\* the phase World.update runs after phase p; "idle" is the return
NextPhase(p) ==
    CASE p = "kin" -> "coll"
      [] p = "coll" -> "poss"
      [] p = "poss" -> "ball"
      [] p = "ball" -> "idle"

\* entry of World.update(dt): the early return, or phase 1 (Team.update of both teams)
Update(dt) ==
    /\ Idle
    /\ pre' = WorldNow
    /\ last' = "update"
    /\ udt' = dt
    /\ IF UpdateGuard(dt)
       THEN /\ UNCHANGED <<team, added, config, goalie_id, robots, ball, kick_cooldown, t, score, state, pc, iter,
                           clamped, phases, passes, imagined, allowed, args>>
       ELSE /\ t + dt <= MaxTicks * TickMs
            /\ passes' = passes
            /\ robots' = TeamsUpdate(robots, dt)
            /\ phases' = <<"kin">>
            /\ pc' = NextPhase("kin")
            /\ iter' = 0
            /\ clamped' = {}
            /\ UNCHANGED <<team, added, config, goalie_id, ball, kick_cooldown, t, score, state, imagined, allowed, args>>

\* no pair of active robots is closer than min_d: every "if d >= min_d: continue"
\* is taken and the pair loop moves nothing, whatever the order
NoContact(R) ==
    \A ki, kj \in Range(ActiveKeys(R)) :
        ki = kj \/ Sqrt(Dist2(R[ki], R[kj].x, R[kj].y)) >= radii(R[ki]) + radii(R[kj])

\* the rosters the pair loop of one relaxation pass can leave, over the outcomes
\* of random.shuffle(order) and of the random nudge angle
PassOutcomes(R) ==
    IF NoContact(R) THEN {R}
    ELSE {OuterLoop(R, ActiveKeys(R), order, 1, ang) :
             order \in Shuffles(Len(ActiveKeys(R))), ang \in RandomAngles}

\* phase 2: one relaxation pass of enforce_no_overlap(iterations=6, clearance=0.01)
Collide ==
    /\ pc = "coll"
    /\ iter < iterations
    /\ \E pushed \in PassOutcomes(robots) :
         /\ robots' = ClampAll(pushed)
         /\ clamped' = clamped \cup MovedByClamp(pushed)
    /\ iter' = iter + 1
    /\ IF iter + 1 = iterations
       THEN pc' = NextPhase("coll") /\ phases' = Append(phases, "coll")
       ELSE UNCHANGED <<pc, phases>>
    /\ UNCHANGED <<team, added, config, goalie_id, ball, kick_cooldown, t, score, state, udt, passes, last, pre,
                   imagined, allowed, args>>

\* phase 3: _update_possession_and_anchor(dt)
Possession ==
    /\ pc = "poss"
    /\ \E o \in {_update_possession_and_anchor(robots, ball, kick_cooldown, udt)} :
          /\ robots' = o.robots
          /\ ball' = o.ball
          /\ kick_cooldown' = o.kick_cooldown
    /\ phases' = Append(phases, "poss")
    /\ pc' = NextPhase("poss")
    /\ UNCHANGED <<team, added, config, goalie_id, t, score, state, udt, iter, clamped, passes, last, pre, imagined, allowed, args>>

\* phase 4: ball.update(dt, half_w, half_h); the clock advances when the call returns
BallPhase ==
    /\ pc = "ball"
    /\ ball' = BallUpdate(ball, udt, half_w, half_h)
    /\ phases' = Append(phases, "ball")
    /\ pc' = NextPhase("ball")
    /\ t' = t + udt
    /\ UNCHANGED <<team, added, config, goalie_id, robots, kick_cooldown, score, state, udt, iter, clamped, passes, last,
                   pre, imagined, allowed, args>>

----------------------------------------------------------------------------
(* Initial worlds: World() as setup_world() leaves it (robots added and placed, *)
(* ball placed or attached, start() called, t = 0, score 0 - 0, no cooldown)    *)

\* a new robot after World.place_robot(side, id, x, y, theta), with its has_ball flag
Placed(x, y, theta, has_ball) ==
    [stop(set_vel(set_pose(Robot, x, y, theta), 0, 0, 0)) EXCEPT !.has_ball = has_ball]

BallAt(x, y) == [Ball EXCEPT !.x = x, !.y = y]

Key(side, rid) == <<side, rid>>

\* a left and a right robot face each other across the ball, which the right
\* one holds, in front of the left goal; each team's other robot keeps its goal
Duel ==
    [robots |-> (Key("left", 1) :> Placed(-10500, 0, 0, FALSE))
             @@ (Key("left", 2) :> Placed(-9000, 0, 0, FALSE))
             @@ (Key("right", 1) :> Placed(10500, 0, 180, FALSE))
             @@ (Key("right", 2) :> Placed(-8300, 0, 180, TRUE)),
     ball |-> BallAt(-8650, 0),
     allowed |-> (Key("right", 2) :> {"TryToShoot"})]

\* two left robots face each other across a free ball, the second one nearer;
\* the third left robot and the right robot keep their goals
Pair ==
    [robots |-> (Key("left", 1) :> Placed(-10500, 0, 0, FALSE))
             @@ (Key("left", 2) :> Placed(-400, 0, 0, FALSE))
             @@ (Key("left", 3) :> Placed(290, 0, 180, FALSE))
             @@ (Key("right", 1) :> Placed(10500, 0, 180, FALSE)),
     ball |-> BallAt(-50, 0),
     allowed |-> (Key("left", 2) :> {"TryToDribble"}) @@ (Key("left", 3) :> {"TryToPass"})]

Scenarios == {Duel, Pair}

\* no call made yet
NoArgs == [op |-> "none"]

SideSet == {"left", "right"}

Init ==
    /\ team = EmptyTeam
    /\ added = {}
    /\ \E sc \in Scenarios :
         /\ robots = sc.robots
         /\ ball = sc.ball
         /\ allowed = sc.allowed
    /\ kick_cooldown = 0
    /\ t = 0
    /\ score = [left |-> 0, right |-> 0]
    /\ state = "playing"
    /\ pc = "idle"
    /\ udt = 0
    /\ iter = 0
    /\ clamped = {}
    /\ phases = <<>>
    /\ passes = 0
    /\ last = "init"
    /\ pre = [robots |-> robots, ball |-> ball, kick_cooldown |-> 0, t |-> 0,
              score |-> [left |-> 0, right |-> 0], state |-> "playing"]
    /\ imagined = <<>>
    /\ args = NoArgs
    /\ goalie_id = [left |-> 1, right |-> 1]
    /\ config = Defaults

\* play: the planners' decide passes interleaved with the run loop's World.update(DT);
\* a run ends with its last World.update
Next ==
    \/ \E side \in SideSet : Decide(side)
    \/ Update(TickMs)
    \/ Collide
    \/ Possession
    \/ BallPhase

Spec == Init /\ [][Next]_vars

\* match control: the referee's calls interleaved with World.update
NextMatch ==
    \/ \E side \in SideSet : set_kickoff(side)
    \/ start
    \/ world_stop
    \/ halt
    \/ \E by_side \in SideSet : goal_scored(by_side)
    \/ \E dt \in DtSet : Update(dt)
    \/ Collide
    \/ Possession
    \/ BallPhase

SpecMatch == Init /\ [][NextMatch]_vars

----------------------------------------------------------------------------
(* enforce_no_overlap on its own: Init draws the configuration the resolver is *)
(* called on, the steps are its relaxation passes                              *)

\* positions the configurations are drawn from: midfield (coincident, close,
\* apart), the top wall, the right wall, the top right corner, outside the field
Points == { <<0, 0>>, <<100, 0>>, <<1000, 0>>, <<0, 6900>>, <<10900, 0>>, <<10700, 50>>,
            <<10900, 6900>>, <<11200, 0>> }

Configuration(p, q, r, third) ==
    (Key("left", 1) :> Placed(p[1], p[2], 0, FALSE))
    @@ (Key("left", 2) :> Placed(q[1], q[2], 45, FALSE))
    @@ (Key("right", 1) :> [Placed(r[1], r[2], 180, FALSE) EXCEPT !.active = third])

InitCollide ==
    /\ team = EmptyTeam
    /\ added = {}
    /\ \E p \in Points, q \in Points, r \in Points, third \in BOOLEAN :
         robots = Configuration(p, q, r, third)
    /\ ball = Ball
    /\ allowed = <<>>
    /\ kick_cooldown = 0
    /\ t = 0
    /\ score = [left |-> 0, right |-> 0]
    /\ state = "playing"
    /\ pc = "coll"
    /\ udt = TickMs
    /\ iter = 0
    /\ clamped = {}
    /\ phases = <<"kin">>
    /\ passes = 0
    /\ last = "update"
    /\ pre = [robots |-> robots, ball |-> Ball, kick_cooldown |-> 0, t |-> 0,
              score |-> [left |-> 0, right |-> 0], state |-> "playing"]
    /\ imagined = <<>>
    /\ args = NoArgs
    /\ goalie_id = [left |-> 1, right |-> 1]
    /\ config = Defaults

NextCollide == Collide

SpecCollide == InitCollide /\ [][NextCollide]_vars

----------------------------------------------------------------------------
(* One robot on its own: Robot.set_pose, the command surface and Robot.update *)

\* Robot.command_face_point(tx, ty, kp, max_rate); max_rate = 0 stands for 0.0
\* and for None, which "max_rate or self.max_omega" both turn into max_omega
command_face_point_rate(r, tx, ty, kp, max_rate) ==
    LET limit == IF max_rate = 0 THEN max_omega ELSE max_rate
        Faced(err) == [r EXCEPT !.desired_omega = _clamp(kp * err, -limit, limit)]
    IN Faced(_wrap_pi(Atan2(ty - r.y, tx - r.x) - r.theta))

MaxCalls == 3
MaxRobotTicks == 2

Me == Key("left", 1)

\* the arguments the calls are made with
ThetaSet == {-540, -180, -90, 0, 180, 270}
VelSet == { <<0, 0, 0>>, <<4000, 0, 0>>, <<2500, 2500, 500>>, <<-3000, -4000, -500>> }
TargetSet == { <<0, 0>>, <<3000, 4000>>, <<-1000, 1>> }
SpeedSet == {max_speed, 4000}
MaxRateSet == {0, 200, 460}

\* velocities a robot starts with: speed at or below max_speed
StartVelSet == { <<0, 0>>, <<max_speed, 0>>, <<1700, 1700>>, <<-1500, 2000>> }

InitRobot ==
    /\ team = EmptyTeam
    /\ added = {}
    /\ \E v \in StartVelSet : robots = (Me :> set_vel(Placed(0, 0, 0, FALSE), v[1], v[2], 0))
    /\ ball = Ball
    /\ allowed = <<>>
    /\ kick_cooldown = 0
    /\ t = 0
    /\ score = [left |-> 0, right |-> 0]
    /\ state = "stopped"
    /\ pc = "idle"
    /\ udt = 0
    /\ iter = 0
    /\ clamped = {}
    /\ phases = <<>>
    /\ passes = 0
    /\ last = "init"
    /\ pre = [robots |-> robots, ball |-> Ball, kick_cooldown |-> 0, t |-> 0,
              score |-> [left |-> 0, right |-> 0], state |-> "stopped"]
    /\ imagined = <<>>
    /\ args = NoArgs
    /\ goalie_id = [left |-> 1, right |-> 0]
    /\ config = Defaults

\* one call on the robot: r1 is the robot the call leaves
RobotCall(name, a, r1) ==
    /\ passes < MaxCalls
    /\ passes' = passes + 1
    /\ robots' = [robots EXCEPT ![Me] = r1]
    /\ last' = name
    /\ args' = a
    /\ pre' = WorldNow
    /\ UNCHANGED <<team, added, config, goalie_id, ball, kick_cooldown, t, score, state, pc, udt, iter, clamped, phases,
                   imagined, allowed>>

SetPose ==
    \E theta \in ThetaSet :
        RobotCall("set_pose", [op |-> "set_pose", theta |-> theta],
                  set_pose(robots[Me], robots[Me].x, robots[Me].y, theta))

CommandVelocity ==
    \E v \in VelSet :
        RobotCall("command_velocity", [op |-> "command_velocity", v |-> v],
                  command_velocity(robots[Me], v[1], v[2], v[3]))

CommandMoveTowards ==
    \E p \in TargetSet, speed \in SpeedSet :
        RobotCall("command_move_towards",
                  [op |-> "command_move_towards", p |-> p, speed |-> speed],
                  command_move_towards(robots[Me], p[1], p[2], speed))

CommandFacePoint ==
    \E p \in TargetSet, max_rate \in MaxRateSet :
        RobotCall("command_face_point",
                  [op |-> "command_face_point", p |-> p, max_rate |-> max_rate],
                  command_face_point_rate(robots[Me], p[1], p[2], 3, max_rate))

\* Robot.update(DT)
RobotStep ==
    /\ t < MaxRobotTicks * TickMs
    /\ t' = t + TickMs
    /\ robots' = [robots EXCEPT ![Me] = RobotUpdate(@, TickMs)]
    /\ last' = "robot_update"
    /\ args' = [op |-> "robot_update", dt |-> TickMs]
    /\ pre' = WorldNow
    /\ UNCHANGED <<team, added, config, goalie_id, ball, kick_cooldown, score, state, pc, udt, iter, clamped, phases,
                   passes, imagined, allowed>>

NextRobot ==
    \/ SetPose
    \/ CommandVelocity
    \/ CommandMoveTowards
    \/ CommandFacePoint
    \/ RobotStep

SpecRobot == InitRobot /\ [][NextRobot]_vars

\* braking: command_velocity(0, 0, 0) then Robot.update(DT), tick after tick
MaxBrakeTicks == 40

BrakeTick ==
    /\ t < MaxBrakeTicks * TickMs
    /\ t' = t + TickMs
    /\ robots' = [robots EXCEPT ![Me] = RobotUpdate(command_velocity(@, 0, 0, 0), TickMs)]
    /\ last' = "brake"
    /\ args' = [op |-> "brake", dt |-> TickMs]
    /\ pre' = WorldNow
    /\ UNCHANGED <<team, added, config, goalie_id, ball, kick_cooldown, score, state, pc, udt, iter, clamped, phases,
                   passes, imagined, allowed>>

NextBrake == BrakeTick

SpecBrake == InitRobot /\ [][NextBrake]_vars

----------------------------------------------------------------------------
(* A world constructed with any configuration: World(field_w=.., field_h=..) *)
(* with one robot Robot(max_speed=..) and a free rolling ball                *)

MaxConfigTicks == 3

FieldWSet == {-field_w, field_w}
FieldHSet == {-field_h, field_h}
MaxSpeedSet == {-max_speed, 0, max_speed}

\* the dataclass constructors store what they are given: neither World nor
\* Robot has a __post_init__, and nothing else looks at the values
InitConfig ==
    /\ team = EmptyTeam
    /\ added = {}
    /\ config \in [field_w : FieldWSet, field_h : FieldHSet, max_speed : MaxSpeedSet]
    /\ robots = (Me :> Placed(-3000, 0, 0, FALSE))
    /\ goalie_id = [left |-> 1, right |-> 0]
    /\ ball = [BallAt(3000, 2000) EXCEPT !.vx = 2000]
    /\ kick_cooldown = 0
    /\ t = 0
    /\ score = [left |-> 0, right |-> 0]
    /\ state = "playing"
    /\ pc = "idle"
    /\ udt = 0
    /\ iter = 0
    /\ clamped = {}
    /\ phases = <<>>
    /\ passes = 0
    /\ last = "World"
    /\ pre = WorldNow
    /\ imagined = <<>>
    /\ allowed = <<>>
    /\ args = NoArgs

\* a controller's command_velocity on the robot
ConfigCommand ==
    /\ passes < MaxCalls
    /\ passes' = passes + 1
    /\ \E v \in VelSet :
          /\ robots' = [robots EXCEPT ![Me] = command_velocity_limit(@, config.max_speed,
                                                                     v[1], v[2], v[3])]
          /\ args' = [op |-> "command_velocity", v |-> v]
    /\ last' = "command_velocity"
    /\ pre' = WorldNow
    /\ UNCHANGED <<team, added, config, goalie_id, ball, kick_cooldown, t, score, state, pc, udt, iter,
                   clamped, phases, imagined, allowed>>

\* World.update(dt) of that world: Team.update, the field clamp of
\* enforce_no_overlap (one robot: no pair), possession, Ball.update
UpdateWithin(dt, ticks) ==
    /\ t < ticks * TickMs
    /\ \E R1 \in {[k \in DOMAIN robots |->
                     clamp_robot_inside(RobotUpdateLimit(robots[k], dt, config.max_speed),
                                        config.field_w \div 2, config.field_h \div 2)]} :
        \E o \in {_update_possession_and_anchor(R1, ball, kick_cooldown, dt)} :
          /\ robots' = o.robots
          /\ kick_cooldown' = o.kick_cooldown
          /\ ball' = BallUpdate(o.ball, dt, config.field_w \div 2, config.field_h \div 2)
    /\ t' = t + dt
    /\ last' = "update"
    /\ args' = [op |-> "update", dt |-> dt]
    /\ pre' = WorldNow
    /\ UNCHANGED <<team, added, config, goalie_id, score, state, pc, udt, iter, clamped, phases, passes,
                   imagined, allowed>>

\* the updates of a configured world: at most MaxConfigTicks of them
ConfigUpdate(dt) == UpdateWithin(dt, MaxConfigTicks)

NextConfig == ConfigCommand \/ ConfigUpdate(TickMs)

SpecConfig == InitConfig /\ [][NextConfig]_vars

----------------------------------------------------------------------------
(* Decide passes of a team in possession: five left robots, some of them    *)
(* switched off (Team.set_active), the holder with the ball at its nose     *)

\* the left roster as setup places it; the right team has its keeper only
AttackRoster ==
    (Key("left", 1) :> Placed(-10500, 0, 0, FALSE))
    @@ (Key("left", 2) :> Placed(-6000, 0, 0, FALSE))
    @@ (Key("left", 3) :> Placed(3000, 0, 0, FALSE))
    @@ (Key("left", 4) :> Placed(0, -3000, 0, FALSE))
    @@ (Key("left", 5) :> Placed(6000, 0, 0, FALSE))
    @@ (Key("right", 1) :> Placed(10500, 0, 180, FALSE))

\* the left robot that holds the ball: the one nearest to its own goal, or a forward
HolderSet == {1, 3}

\* the left robots switched off
InactiveSet == {{}, {1}, {2}, {2, 4}, {4, 5}}

\* allowed_per_robot of the holder
AllowedSet == {{}, {"TryToShoot"}, {"TryToPass"}, {"TryToDeepPass"}, {"TryToDribble"}}

\* the roster with robot h holding the ball and the robots of off switched off
Attacking(h, off) ==
    [k \in DOMAIN AttackRoster |->
        [AttackRoster[k] EXCEPT !.has_ball = (k = Key("left", h)),
                                !.active = ~(k[1] = "left" /\ k[2] \in off)]]

InitAttack ==
    /\ team = EmptyTeam
    /\ added = {}
    /\ \E h \in HolderSet, off \in InactiveSet, acts \in AllowedSet :
         /\ h \notin off
         /\ robots = Attacking(h, off)
         /\ ball = Anchor(robots[Key("left", h)])
         /\ allowed = (Key("left", h) :> acts)
    /\ kick_cooldown = 0
    /\ t = 0
    /\ score = [left |-> 0, right |-> 0]
    /\ state = "playing"
    /\ pc = "idle"
    /\ udt = 0
    /\ iter = 0
    /\ clamped = {}
    /\ phases = <<>>
    /\ passes = 0
    /\ last = "init"
    /\ pre = [robots |-> robots, ball |-> ball, kick_cooldown |-> 0, t |-> 0,
              score |-> [left |-> 0, right |-> 0], state |-> "playing"]
    /\ imagined = <<>>
    /\ args = NoArgs
    /\ goalie_id = [left |-> 1, right |-> 1]
    /\ config = Defaults

NextAttack == \E side \in SideSet : Decide(side)

SpecAttack == InitAttack /\ [][NextAttack]_vars

----------------------------------------------------------------------------
(* build_move_with_ball_actions and choose_best_action for the holder of    *)
(* the attacking roster, with and without an entry in allowed_per_robot     *)

MaxBuildCalls == 1

\* allowed_per_robot: no entry at all, an entry of another robot only, or an
\* entry of the holder
AllowedMaps(h) ==
    {<<>>, (Key("left", 2 + (h % 2)) :> {"TryToShoot"})}
    \cup {(Key("left", h) :> acts) : acts \in AllowedSet \cup {{"TryToPass", "TryToDribble"}}}

InitAllowed ==
    /\ team = EmptyTeam
    /\ added = {}
    /\ \E h \in HolderSet, off \in {{}, {2, 4}} :
         /\ h \notin off
         /\ robots = Attacking(h, off)
         /\ ball = Anchor(robots[Key("left", h)])
         /\ allowed \in AllowedMaps(h)
    /\ kick_cooldown = 0
    /\ t = 0
    /\ score = [left |-> 0, right |-> 0]
    /\ state = "playing"
    /\ pc = "idle"
    /\ udt = 0
    /\ iter = 0
    /\ clamped = {}
    /\ phases = <<>>
    /\ passes = 0
    /\ last = "init"
    /\ pre = [robots |-> robots, ball |-> ball, kick_cooldown |-> 0, t |-> 0,
              score |-> [left |-> 0, right |-> 0], state |-> "playing"]
    /\ imagined = <<>>
    /\ args = NoArgs
    /\ goalie_id = [left |-> 1, right |-> 1]
    /\ config = Defaults

\* actions = build_move_with_ball_actions(world, team, rid, allowed, imagined);
\* best = choose_best_action(actions): the subtypes returned and the choice
BuildAndChoose(side, rid) ==
    /\ passes < MaxBuildCalls
    /\ passes' = passes + 1
    /\ \E draw \in Draws :
        \E acts \in {build_move_with_ball_actions(robots, side, rid, allowed, imagined, draw)} :
          \E best \in choose_best_action(acts) :
            args' = [op |-> "choose_best_action", side |-> side, rid |-> rid,
                     subs |-> {a.sub : a \in acts}, best |-> best]
    /\ last' = "choose_best_action"
    /\ pre' = WorldNow
    /\ UNCHANGED <<team, added, config, goalie_id, robots, ball, kick_cooldown, t, score, state, pc, udt,
                   iter, clamped, phases, imagined, allowed>>

NextAllowed ==
    \/ \E rid \in HolderSet : BuildAndChoose("left", rid)
    \/ \E side \in SideSet : Decide(side)

SpecAllowed == InitAllowed /\ [][NextAllowed]_vars

----------------------------------------------------------------------------
(* The interception model (actions/planning.py), applied to drawn arguments *)

\* the parameter t of _seg_point_distance(p0, p1, p), in 1024ths
_seg_point_t(x0, y0, x1, y1, x, y) ==
    LET vx == x1 - x0
        vy == y1 - y0
        L2 == vx * vx + vy * vy
        dot == (x - x0) * vx + (y - y0) * vy
    IN IF L2 = 0 \/ dot <= 0 THEN 0 ELSE IF dot >= L2 THEN 1024 ELSE BinFrac(dot, L2, 512, 0)

\* the time ratios are kept in 50ths, so that the ramp runs from 40 to 50
CritScale == 50

\* an interception model in which a faster opponent needs more time
evaluate_success_probability_slow(depart, cible, interceptors, vitesse_deplacement, opponent_max_speed, inter_centre_distance, temps_reaction_opponent) ==
    LET L == Hypot(cible[1] - depart[1], cible[2] - depart[2])
        Ratio(d_eff, tt) ==
            DivR((DivR(d_eff * Max(1, opponent_max_speed), 1000)
                    + (IF d_eff = 0 THEN 0 ELSE temps_reaction_opponent)) * CritScale,
                 Max(1, DivR(DivR(tt * L, 1024) * 1000, Max(1, vitesse_deplacement))))
        Crit(i) ==
            Ratio(Max(0, _seg_point_distance(depart[1], depart[2], cible[1], cible[2], i[1], i[2])
                            - inter_centre_distance),
                  _seg_point_t(depart[1], depart[2], cible[1], cible[2], i[1], i[2]))
        Lowest(crits) == CHOOSE m \in crits : \A n \in crits : m <= n
    IN IF L = 0 \/ interceptors = {} THEN Unit
       ELSE linear_in_interval(Lowest({Crit(i) : i \in interceptors}),
                               (8 * CritScale) \div 10, CritScale, 0, Unit)

\* evaluate_success_probability_absence_interception(start = depart, ...), scaled
\* by Unit; distances in mm, speeds in mm/s, times in ms, the floors
\* max(1e-6, .) at one unit
evaluate_success_probability_absence_interception(depart, cible, interceptors, vitesse_deplacement, opponent_max_speed, inter_centre_distance, temps_reaction_opponent) ==
    LET L == Hypot(cible[1] - depart[1], cible[2] - depart[2])
        \* t_opp / max(1e-6, t_ball) for an opponent at d_eff from the segment
        Ratio(d_eff, tt) ==
            DivR((DivR(d_eff * 1000, Max(1, opponent_max_speed))
                    + (IF d_eff = 0 THEN 0 ELSE temps_reaction_opponent)) * CritScale,
                 Max(1, DivR(DivR(tt * L, 1024) * 1000, Max(1, vitesse_deplacement))))
        Crit(i) ==
            Ratio(Max(0, _seg_point_distance(depart[1], depart[2], cible[1], cible[2], i[1], i[2])
                            - inter_centre_distance),
                  _seg_point_t(depart[1], depart[2], cible[1], cible[2], i[1], i[2]))
        Lowest(crits) == CHOOSE m \in crits : \A n \in crits : m <= n
    IN IF L = 0 \/ interceptors = {} THEN Unit
       ELSE linear_in_interval(Lowest({Crit(i) : i \in interceptors}),
                               (8 * CritScale) \div 10, CritScale, 0, Unit)

MaxInterceptCalls == 1

StartSet == { <<0, 0>>, <<1000, -2000>> }
CibleSet == { <<0, 0>>, <<10000, 0>>, <<6000, 3000>> }
InterceptorSet == { {}, { <<5000, 300>> }, { <<5000, 2000>> }, { <<2000, -600>>, <<8000, 900>> } }
MoverSpeedSet == {2500, 6000}
OpponentSpeedSet == {-1000, 0, 2300, 2500, 4000}
BodyRadiusSet == {0, 350}
ReactionSet == {0, 100}

\* one call with every argument drawn, and the same call with the opponents'
\* assumed max speed raised from slow to fast
Intercept ==
    /\ passes < MaxInterceptCalls
    /\ passes' = passes + 1
    /\ \E depart \in StartSet, cible \in CibleSet, opps \in InterceptorSet,
          speed \in MoverSpeedSet, slow \in OpponentSpeedSet, fast \in OpponentSpeedSet,
          icd \in BodyRadiusSet, tr \in ReactionSet :
          /\ slow <= fast
          /\ args' = [op |-> "intercept", depart |-> depart, cible |-> cible,
                      interceptors |-> opps, vitesse_deplacement |-> speed,
                      slow |-> slow, fast |-> fast,
                      p_slow |-> evaluate_success_probability_absence_interception(
                                     depart, cible, opps, speed, slow, icd, tr),
                      p_fast |-> evaluate_success_probability_absence_interception(
                                     depart, cible, opps, speed, fast, icd, tr)]
    /\ last' = "intercept"
    /\ UNCHANGED <<team, added, config, goalie_id, robots, ball, kick_cooldown, t, score, state, pc, udt,
                   iter, clamped, phases, pre, imagined, allowed>>

NextIntercept == Intercept

SpecIntercept == InitRobot /\ [][NextIntercept]_vars

----------------------------------------------------------------------------
(* Decide passes of a team without the ball: four left robots, some of them *)
(* switched off, the ball loose or at the nose of a right robot             *)

DefendRoster ==
    (Key("left", 1) :> Placed(-10500, 0, 0, FALSE))
    @@ (Key("left", 2) :> Placed(-4000, 1000, 0, FALSE))
    @@ (Key("left", 3) :> Placed(-1000, -500, 0, FALSE))
    @@ (Key("left", 4) :> Placed(2000, 2000, 0, FALSE))
    @@ (Key("right", 1) :> Placed(10500, 0, 180, FALSE))
    @@ (Key("right", 2) :> Placed(1000, 0, 180, FALSE))

\* the left robots switched off
DefendInactiveSet == {{}, {1}, {3}, {1, 2}, {2, 3, 4}}

\* the roster with the robots of off switched off; held: right robot 2 has the ball
Defending(off, held) ==
    [k \in DOMAIN DefendRoster |->
        [DefendRoster[k] EXCEPT !.has_ball = (held /\ k = Key("right", 2)),
                                !.active = ~(k[1] = "left" /\ k[2] \in off)]]

InitDefend ==
    /\ team = EmptyTeam
    /\ added = {}
    /\ \E off \in DefendInactiveSet, held \in BOOLEAN :
         /\ robots = Defending(off, held)
         /\ ball = IF held THEN Anchor(robots[Key("right", 2)]) ELSE BallAt(0, 0)
    /\ allowed = <<>>
    /\ kick_cooldown = 0
    /\ t = 0
    /\ score = [left |-> 0, right |-> 0]
    /\ state = "playing"
    /\ pc = "idle"
    /\ udt = 0
    /\ iter = 0
    /\ clamped = {}
    /\ phases = <<>>
    /\ passes = 0
    /\ last = "init"
    /\ pre = [robots |-> robots, ball |-> ball, kick_cooldown |-> 0, t |-> 0,
              score |-> [left |-> 0, right |-> 0], state |-> "playing"]
    /\ imagined = <<>>
    /\ args = NoArgs
    /\ goalie_id = [left |-> 1, right |-> 1]
    /\ config = Defaults

NextDefend == \E side \in SideSet : Decide(side)

SpecDefend == InitDefend /\ [][NextDefend]_vars

----------------------------------------------------------------------------
(* World.update of the default world with the ball anywhere: inside the     *)
(* field, on its boundary or beyond it, free or at the nose of the robot    *)

BallXSet == {0, 10800, 10890, 11200, -10880}
BallYSet == {0, 6890, -7300}
BallVxSet == {-6000, 0, 40, 7500}
BallVySet == {-40, 0, 3000}

InitBall ==
    /\ team = EmptyTeam
    /\ added = {}
    /\ config = Defaults
    /\ \/ /\ robots = (Me :> Placed(-3000, 0, 0, FALSE))
          /\ \E x \in BallXSet, y \in BallYSet, vx \in BallVxSet, vy \in BallVySet :
                ball = [x |-> x, y |-> y, vx |-> vx, vy |-> vy]
       \/ /\ \E y \in BallYSet, theta \in {0, 90, -90} :
                robots = (Me :> Placed(10600, y, theta, TRUE))
          /\ ball = Anchor(robots[Me])
    /\ goalie_id = [left |-> 1, right |-> 0]
    /\ kick_cooldown = 0
    /\ t = 0
    /\ score = [left |-> 0, right |-> 0]
    /\ state = "playing"
    /\ pc = "idle"
    /\ udt = 0
    /\ iter = 0
    /\ clamped = {}
    /\ phases = <<>>
    /\ passes = 0
    /\ last = "init"
    /\ pre = WorldNow
    /\ imagined = <<>>
    /\ allowed = <<>>
    /\ args = NoArgs

SpecBall == InitBall /\ [][NextConfig]_vars

----------------------------------------------------------------------------
(* World.update of the default world after a kick: the cooldown runs, the   *)
(* ball lies before the robot's nose or out of its reach                    *)

KickCooldownSet == {30, 50, 100, KickCooldown}
LooseBallSet == { <<300, 0>>, <<340, 40>>, <<2000, 0>> }

InitCooldown ==
    /\ team = EmptyTeam
    /\ added = {}
    /\ config = Defaults
    /\ \E held \in BOOLEAN : robots = (Me :> Placed(0, 0, 0, held))
    /\ \E p \in LooseBallSet : ball = BallAt(p[1], p[2])
    /\ kick_cooldown \in KickCooldownSet
    /\ goalie_id = [left |-> 1, right |-> 0]
    /\ t = 0
    /\ score = [left |-> 0, right |-> 0]
    /\ state = "playing"
    /\ pc = "idle"
    /\ udt = 0
    /\ iter = 0
    /\ clamped = {}
    /\ phases = <<>>
    /\ passes = 0
    /\ last = "init"
    /\ pre = WorldNow
    /\ imagined = <<>>
    /\ allowed = <<>>
    /\ args = NoArgs

SpecCooldown == InitCooldown /\ [][NextConfig]_vars

----------------------------------------------------------------------------
(* A free ball rolling out under the timer's World.update ticks: the only   *)
(* robot stands in a corner, out of the ball's reach                         *)

MaxRollTicks == 80

RollStartSet == { <<0, 0>>, <<10000, 0>>, <<11200, 0>> }
RollVelSet == { <<0, 0>>, <<1, 1>>, <<60, 0>>, <<-3000, 4000>>, <<7500, 0>>, <<0, -7500>> }

InitRoll ==
    /\ team = EmptyTeam
    /\ added = {}
    /\ config = Defaults
    /\ robots = (Me :> Placed(-10500, 6500, 180, FALSE))
    /\ \E p \in RollStartSet, v \in RollVelSet :
         ball = [BallAt(p[1], p[2]) EXCEPT !.vx = v[1], !.vy = v[2]]
    /\ kick_cooldown = 0
    /\ goalie_id = [left |-> 1, right |-> 0]
    /\ t = 0
    /\ score = [left |-> 0, right |-> 0]
    /\ state = "playing"
    /\ pc = "idle"
    /\ udt = 0
    /\ iter = 0
    /\ clamped = {}
    /\ phases = <<>>
    /\ passes = 0
    /\ last = "init"
    /\ pre = WorldNow
    /\ imagined = <<>>
    /\ allowed = <<>>
    /\ args = NoArgs

\* one tick of the timer
RollTick == UpdateWithin(TickMs, MaxRollTicks)

NextRoll == RollTick

\* the timer firing seen on the clock alone: every RollTick step is one, and
\* every step of NextRoll that advances the clock is a RollTick
TimerFires == t < MaxRollTicks * TickMs /\ t' = t + TickMs

\* the timer keeps firing
SpecRoll == InitRoll /\ [][NextRoll]_vars /\ WF_t(TimerFires)

----------------------------------------------------------------------------
(* Roster operations called with any id (models/team.py, World.place_robot, *)
(* build_move_with_ball_actions, the planner's role helpers)                *)

Has(R, side, rid) == Key(side, rid) \in DOMAIN R

\* Team.get(robot_id): 1 stands for the robot, 0 for None
get(R, side, rid) == IF Has(R, side, rid) THEN 1 ELSE 0

\* Team.set_active(robot_id, flag)
set_active(R, side, rid, flag) ==
    IF Has(R, side, rid) THEN [R EXCEPT ![Key(side, rid)].active = flag] ELSE R

\* a set_goalie that does not look at the roster
set_goalie_unchecked(g, R, side, rid) == [g EXCEPT ![side] = rid]

\* Team.set_goalie(robot_id): the goalie ids it leaves
set_goalie(g, R, side, rid) == IF Has(R, side, rid) THEN [g EXCEPT ![side] = rid] ELSE g

\* Team.remove_robot(robot_id): [robots, goalie_id]
remove_robot(g, R, side, rid) ==
    LET Left(R1) ==
            [robots |-> R1,
             goalie_id |-> IF g[side] = rid
                           THEN [g EXCEPT ![side] = IF Len(TeamKeys(R1, side)) = 0 THEN 0
                                                    ELSE TeamKeys(R1, side)[1][2]]
                           ELSE g]
    IN Left([k \in DOMAIN R \ {Key(side, rid)} |-> R[k]])

\* World.place_robot(side, robot_id, x, y, theta): [robots, goalie_id]; a missing
\* robot is created by Team.add_robot, which makes the first robot the goalie
place_robot(g, R, side, rid, x, y, theta) ==
    IF Has(R, side, rid)
    THEN [robots |-> [R EXCEPT ![Key(side, rid)] = stop(set_vel(set_pose(@, x, y, theta), 0, 0, 0))],
          goalie_id |-> g]
    ELSE [robots |-> [k \in DOMAIN R \cup {Key(side, rid)} |->
                         IF k = Key(side, rid) THEN Placed(x, y, theta, FALSE) ELSE R[k]],
          goalie_id |-> IF g[side] = 0 THEN [g EXCEPT ![side] = rid] ELSE g]

MaxRosterCalls == 2

\* ids the calls are made with: two of the roster, one that no team has
IdSet == {1, 2, 7}
RoleSet == {"_seek_ball", "_pos_playing_ball", "_assist", "_defend", "_goalkeep"}

\* one call with (side, rid) that leaves the roster R1, the goalie ids g1, the
\* ball b1 and returns result (0 stands for None and for an empty list)
RosterCall(name, side, rid, R1, g1, b1, result) ==
    /\ Idle
    /\ passes < MaxRosterCalls
    /\ passes' = passes + 1
    /\ robots' = R1
    /\ goalie_id' = g1
    /\ ball' = b1
    /\ last' = name
    /\ args' = [op |-> name, side |-> side, rid |-> rid, known |-> Has(robots, side, rid),
                goalie |-> goalie_id, result |-> result]
    /\ pre' = WorldNow
    /\ UNCHANGED <<team, added, config, kick_cooldown, t, score, state, pc, udt, iter, clamped, phases,
                   imagined, allowed>>

TeamGet(side, rid) ==
    RosterCall("get", side, rid, robots, goalie_id, ball, get(robots, side, rid))

SetActive(side, rid) ==
    \E flag \in BOOLEAN :
        RosterCall("set_active", side, rid, set_active(robots, side, rid, flag), goalie_id, ball, 0)

SetGoalie(side, rid) ==
    RosterCall("set_goalie", side, rid, robots, set_goalie(goalie_id, robots, side, rid), ball, 0)

RemoveRobot(side, rid) ==
    \E o \in {remove_robot(goalie_id, robots, side, rid)} :
        RosterCall("remove_robot", side, rid, o.robots, o.goalie_id, ball, 0)

PlaceRobot(side, rid) ==
    \E o \in {place_robot(goalie_id, robots, side, rid, 1000, 1000, 180)} :
        RosterCall("place_robot", side, rid, o.robots, o.goalie_id, ball, 0)

BuildActions(side, rid) ==
    \E draw \in Draws :
        RosterCall("build_move_with_ball_actions", side, rid, robots, goalie_id, ball,
                   Cardinality(build_move_with_ball_actions(robots, side, rid, allowed,
                                                            imagined, draw)))

\* the world a role helper of the planner leaves
RoleHelper(W, role, side, key) ==
    CASE role = "_seek_ball" -> _seek_ball(W, side, key)
      [] role = "_pos_playing_ball" -> _pos_playing_ball(W, state, side, key)
      [] role = "_assist" -> _assist(W, state, side, key)
      [] role = "_defend" -> _defend(W, state, side, key, 2500)
      [] role = "_goalkeep" -> _goalkeep(W, side, key)

RoleCall(side, rid) ==
    \E role \in RoleSet :
      \E W \in {RoleHelper([robots |-> robots, ball |-> ball, kick_cooldown |-> kick_cooldown,
                            imagined |-> imagined], role, side, Key(side, rid))} :
        RosterCall(role, side, rid, W.robots, goalie_id, W.ball, 0)

NextRoster ==
    \/ \E side \in SideSet, rid \in IdSet : TeamGet(side, rid)
    \/ \E side \in SideSet, rid \in IdSet : SetActive(side, rid)
    \/ \E side \in SideSet, rid \in IdSet : SetGoalie(side, rid)
    \/ \E side \in SideSet, rid \in IdSet : RemoveRobot(side, rid)
    \/ \E side \in SideSet, rid \in IdSet : PlaceRobot(side, rid)
    \/ \E side \in SideSet, rid \in IdSet : BuildActions(side, rid)
    \/ \E side \in SideSet, rid \in IdSet : RoleCall(side, rid)

SpecRoster == Init /\ [][NextRoster]_vars

----------------------------------------------------------------------------
(* Possession while robots are switched off and on: two left robots, the   *)
(* ball loose before the first one, no cooldown running                     *)

InitPossession ==
    /\ team = EmptyTeam
    /\ added = {}
    /\ config = Defaults
    /\ robots = (Me :> Placed(0, 0, 0, FALSE)) @@ (Key("left", 2) :> Placed(3000, 0, 180, FALSE))
    /\ \E p \in LooseBallSet : ball = BallAt(p[1], p[2])
    /\ kick_cooldown = 0
    /\ goalie_id = [left |-> 1, right |-> 0]
    /\ t = 0
    /\ score = [left |-> 0, right |-> 0]
    /\ state = "playing"
    /\ pc = "idle"
    /\ udt = 0
    /\ iter = 0
    /\ clamped = {}
    /\ phases = <<>>
    /\ passes = 0
    /\ last = "init"
    /\ pre = WorldNow
    /\ imagined = <<>>
    /\ allowed = <<>>
    /\ args = NoArgs

NextPossession ==
    \/ ConfigCommand
    \/ ConfigUpdate(TickMs)
    \/ \E rid \in {1, 2} : SetActive("left", rid)

SpecPossession == InitPossession /\ [][NextPossession]_vars

----------------------------------------------------------------------------
(* Roster calls on one Team that starts empty                               *)

MaxTeamCalls == 4

\* explicit ids of add_robot, ids of the other calls, sizes asked of ensure_size
ExplicitIdSet == {0, 2, 5}
TeamIdSet == {0, 1, 2, 3, 5}
SizeSet == {-1, 0, 1, 3}

InitTeam ==
    /\ team = EmptyTeam
    /\ added = {}
    /\ config = Defaults
    /\ robots = (Me :> Placed(0, 0, 0, FALSE))
    /\ ball = BallAt(0, 0)
    /\ kick_cooldown = 0
    /\ goalie_id = [left |-> 1, right |-> 0]
    /\ t = 0
    /\ score = [left |-> 0, right |-> 0]
    /\ state = "playing"
    /\ pc = "idle"
    /\ udt = 0
    /\ iter = 0
    /\ clamped = {}
    /\ phases = <<>>
    /\ passes = 0
    /\ last = "init"
    /\ pre = WorldNow
    /\ imagined = <<>>
    /\ allowed = <<>>
    /\ args = NoArgs

\* one call on the team that leaves tm1; auto tells whether it allocates ids
TeamCall(name, a, tm1, auto) ==
    /\ passes < MaxTeamCalls
    /\ passes' = passes + 1
    /\ team' = tm1
    /\ added' = added \cup Range(Keys(tm1))
    /\ last' = name
    /\ args' = [op |-> name, arg |-> a, before |-> team, ever |-> added,
                auto |-> IF auto THEN team._next_robot_id .. (tm1._next_robot_id - 1) ELSE {}]
    /\ pre' = WorldNow
    /\ UNCHANGED <<config, goalie_id, robots, ball, kick_cooldown, t, score, state, pc, udt,
                   iter, clamped, phases, imagined, allowed>>

AddRobot == TeamCall("add_robot", <<>>, Team_add_robot(team, <<>>), TRUE)

AddRobotWithId(rid) == TeamCall("add_robot", <<rid>>, Team_add_robot(team, <<rid>>), FALSE)

TeamRemoveRobot(rid) == TeamCall("remove_robot", rid, Team_remove_robot(team, rid), FALSE)

TeamSetGoalie(rid) == TeamCall("set_goalie", rid, Team_set_goalie(team, rid), FALSE)

TeamSetActive(rid) == TeamCall("set_active", rid, Team_set_active(team, rid, FALSE), FALSE)

EnsureSize(n) == TeamCall("ensure_size", n, Team_ensure_size(team, n), TRUE)

NextTeam ==
    \/ AddRobot
    \/ \E rid \in ExplicitIdSet : AddRobotWithId(rid)
    \/ \E rid \in TeamIdSet : TeamRemoveRobot(rid)
    \/ \E rid \in TeamIdSet : TeamSetGoalie(rid)
    \/ \E rid \in TeamIdSet : TeamSetActive(rid)
    \/ \E n \in SizeSet : EnsureSize(n)

SpecTeam == InitTeam /\ [][NextTeam]_vars

----------------------------------------------------------------------------
(* Properties *)

Flagged(R, side) == {k \in DOMAIN R : k[1] = side /\ R[k].has_ball}

\* C1: in every reachable state of play (decide passes with their SeekBall
\* captures and kick releases, interleaved with World.update) each team has at
\* most one robot with has_ball = TRUE
C1_OneHolderPerTeam == \A side \in SideSet : Cardinality(Flagged(robots, side)) <= 1

\* a decide pass has just captured the ball by SeekBall for the left team
C1_Witness ==
    /\ last = "decide_left"
    /\ \E k \in Flagged(robots, "left") :
         ~pre.robots[k].has_ball /\ robots[k].dbg_action = "SeekBall"

\* C2: at the end of every World.update(dt > 0) with a holder and sticky attach
\* enabled, the ball is at the holder's anchor point (clipped into the field)
C2_BallAtAnchor ==
    (pc = "idle" /\ last = "update" /\ udt > 0 /\ sticky_enabled)
    => \A k \in DOMAIN robots :
         robots[k].has_ball => ball.x = Anchor(robots[k]).x /\ ball.y = Anchor(robots[k]).y

\* C3: while kick_cooldown > 0 no has_ball flag becomes TRUE, neither in a decide
\* pass nor in World.update (every flag set was already set when the call began)
C3_NoCaptureInCooldown ==
    kick_cooldown > 0
    => \A k \in DOMAIN robots : robots[k].has_ball => pre.robots[k].has_ball

\* C4: with kick_cooldown = 0, a robot that holds the ball when World.update
\* starts still holds it after the possession phase whenever the ball is in its
\* 'off' cone
C4_Hysteresis ==
    [][(pc = "poss" /\ last = "update" /\ pre.kick_cooldown = 0)
       => \A k \in DOMAIN robots :
            (pre.robots[k].has_ball
             /\ sees_ball_front(robots[k], ball.x, ball.y, cone_dist_off, cone_angle_off_deg))
            => robots'[k].has_ball]_vars

ActiveSet(R) == {k \in DOMAIN R : R[k].active}

\* r_i + r_j - d of two robots' bounding circles
Overlap(R, ki, kj) == 2 * outer_radius - Sqrt(Dist2(R[ki], R[kj].x, R[kj].y))

Separated(R) ==
    \A ki, kj \in ActiveSet(R) : ki = kj \/ Overlap(R, ki, kj) <= clearance

InsideField(R) ==
    \A k \in ActiveSet(R) :
        /\ Abs(R[k].x) <= half_w - half_extents_xy(R[k])
        /\ Abs(R[k].y) <= half_h - half_extents_xy(R[k])

\* C5 as stated: after enforce_no_overlap with default parameters, from any
\* configuration, no two active robots overlap by more than the clearance and
\* every active robot is inside the field by its half-extent
C5_ResolvedAndInside == pc = "poss" => (Separated(robots) /\ InsideField(robots))

\* C5 amended: after enforce_no_overlap every active robot is inside the field by
\* its half-extent; and two active robots that the field clamp did not move are
\* no more than the clearance into each other
C5_InsideAndPairResolved ==
    pc = "poss"
    => /\ InsideField(robots)
       /\ (Cardinality(ActiveSet(robots)) = 2 /\ clamped = {}) => Separated(robots)

\* the resolver has separated two robots that began on top of each other
C5_Witness ==
    /\ pc = "poss"
    /\ Cardinality(ActiveSet(robots)) = 2
    /\ clamped = {}
    /\ ~Separated(pre.robots)
    /\ Separated(robots)

AllPhases == <<"kin", "coll", "poss", "ball">>

\* C6: within one World.update(dt > 0) the phases run once each in the order
\* kinematics, collisions, possession, ball; possession is decided on the poses
\* the collisions left and on the ball as it was when the call began; t advances
\* by dt when the call returns
C6_PhaseOrder ==
    (last = "update" /\ udt > 0)
    => /\ pc = "coll" => phases = SubSeq(AllPhases, 1, 1) /\ ball = pre.ball /\ t = pre.t
       /\ pc = "poss" => phases = SubSeq(AllPhases, 1, 2) /\ ball = pre.ball /\ t = pre.t
       /\ pc = "ball" =>
            /\ phases = SubSeq(AllPhases, 1, 3)
            /\ t = pre.t
            /\ LET o == _update_possession_and_anchor(
                            [k \in DOMAIN robots |->
                                [robots[k] EXCEPT !.has_ball = pre.robots[k].has_ball]],
                            pre.ball, pre.kick_cooldown, udt)
               IN robots = o.robots /\ ball = o.ball /\ kick_cooldown = o.kick_cooldown
       /\ pc = "idle" => phases = AllPhases /\ t = pre.t + udt

\* a World.update has returned and its possession phase has made a robot the holder
C6_Witness ==
    /\ pc = "idle" /\ last = "update" /\ udt > 0
    /\ phases = AllPhases
    /\ t = pre.t + udt
    /\ \E k \in DOMAIN robots : robots[k].has_ball /\ ~pre.robots[k].has_ball

\* C7: World.update(dt) with dt <= 0 changes nothing: robots, flags, ball,
\* kick_cooldown, t, score and match state are as they were
C7_NoopUpdate == (pc = "idle" /\ last = "update" /\ udt <= 0) => WorldNow = pre

\* World.update(0) has returned in a world where a robot would take the free ball
C7_Witness ==
    /\ pc = "idle" /\ last = "update" /\ udt = 0
    /\ Flagged(robots, "left") \cup Flagged(robots, "right") = {}
    /\ NewHolder(robots, ball) # <<>>

\* C8: while the match state is halt, World.update leaves robots, ball,
\* possession flags, kick_cooldown and t unchanged
C8_HaltFreezes ==
    (state = "halt" /\ last = "update")
    => /\ robots = pre.robots
       /\ ball = pre.ball
       /\ kick_cooldown = pre.kick_cooldown
       /\ t = pre.t

KickoffStates == {"kickoff_left", "kickoff_right"}

\* C9 as stated: the match state changes only from stopped/halt to a kick-off
\* state, from a kick-off state to playing, from playing to a kick-off state, to
\* halt (and to stopped); playing is entered only from a kick-off state
C9_ListedTransitions ==
    state # pre.state
    => \/ pre.state \in {"stopped", "halt"} /\ state \in KickoffStates
       \/ pre.state \in KickoffStates /\ state = "playing"
       \/ pre.state = "playing" /\ state \in KickoffStates
       \/ state = "halt"
       \/ state = "stopped"

\* C9 amended: the match state changes only by the control calls, none of which
\* looks at the current state: set_kickoff puts a kick-off state, start() puts
\* playing, stop() stopped, halt() halt, goal_scored the kick-off of the other
\* side; World.update leaves it alone and "goal" is never entered
C9_UnguardedTransitions ==
    /\ last = "set_kickoff" => state \in KickoffStates
    /\ last = "start" => state = "playing"
    /\ last = "stop" => state = "stopped"
    /\ last = "halt" => state = "halt"
    /\ last = "goal_scored_left" => state = "kickoff_right"
    /\ last = "goal_scored_right" => state = "kickoff_left"
    /\ last \in {"update", "init"} => state = pre.state
    /\ state # "goal"

\* start() has put playing from stopped
C9_Witness == last = "start" /\ pre.state = "stopped" /\ state = "playing"

\* C10: goal_scored(side) adds exactly 1 to the scorer's score, leaves the other
\* score, gives the kick-off to the side scored against, and puts the ball at
\* the centre with zero velocity
C10_GoalScored ==
    /\ last = "goal_scored_left" =>
         /\ score.left = pre.score.left + 1 /\ score.right = pre.score.right
         /\ state = "kickoff_right"
         /\ ball = [x |-> 0, y |-> 0, vx |-> 0, vy |-> 0]
    /\ last = "goal_scored_right" =>
         /\ score.right = pre.score.right + 1 /\ score.left = pre.score.left
         /\ state = "kickoff_left"
         /\ ball = [x |-> 0, y |-> 0, vx |-> 0, vy |-> 0]

\* the left team has scored during play, the ball away from the centre
C10_Witness ==
    /\ last = "goal_scored_left"
    /\ pre.state = "playing"
    /\ pre.ball.x # 0
    /\ score.left = 1

\* C11: _wrap_pi returns a value in (-180, 180] degrees (so 180 stays 180) and
\* is idempotent, so after every Robot.set_pose and Robot.update the robot's
\* theta lies in (-180, 180] and wrapping it again changes nothing
C11_ThetaHalfOpen ==
    last \in {"set_pose", "robot_update"} =>
        /\ robots[Me].theta > -180
        /\ robots[Me].theta <= 180
        /\ _wrap_pi(robots[Me].theta) = robots[Me].theta

Speed2(r) == r.vx * r.vx + r.vy * r.vy

\* C12: a robot that starts with a speed of at most max_speed never exceeds
\* max_speed (by more than 2 mm/s of rounding) under any sequence of
\* command_velocity / command_move_towards calls and Robot.update steps
C12_SpeedWithinMax == Speed2(robots[Me]) <= (max_speed + 2) * (max_speed + 2)

\* an update has just run at full speed under a command that asked for more
\* than max_speed, and the velocity has turned
C12_Witness ==
    /\ last = "robot_update"
    /\ Speed2(pre.robots[Me]) >= (max_speed - 2) * (max_speed - 2)
    /\ robots[Me].desired_vx = -1500 /\ robots[Me].desired_vy = -2000
    /\ robots[Me].vy < 0

\* the time allowed for braking: 12.5 tau_v (30 ticks of 50 ms)
BrakeTime == (25 * tau_v) \div 2

\* C13: with zero velocity commanded on every tick, the speed of an active robot
\* that started within max_speed is exactly 0 once a number of Robot.update
\* ticks proportional to tau_v have run
C13_StopsExactly == (last = "brake" /\ t >= BrakeTime) => Speed2(robots[Me]) = 0

\* C14: after every command_velocity, command_move_towards and
\* command_face_point call, whatever its arguments (max_rate above max_omega or
\* 0 included), the stored intent has speed at most max_speed (up to 2 mm/s of
\* rounding) and |desired_omega| at most max_omega
C14_IntentWithinLimits ==
    last \in {"command_velocity", "command_move_towards", "command_face_point"} =>
        /\ robots[Me].desired_vx * robots[Me].desired_vx
             + robots[Me].desired_vy * robots[Me].desired_vy
             <= (max_speed + 2) * (max_speed + 2)
        /\ Abs(robots[Me].desired_omega) <= max_omega

RosterOps == {"get", "set_active", "set_goalie", "remove_robot", "place_robot",
              "build_move_with_ball_actions"} \cup RoleSet

\* the call left robots, goalie ids and ball as they were and returned None / []
NoEffect ==
    /\ robots = pre.robots
    /\ goalie_id = args.goalie
    /\ ball = pre.ball
    /\ args.result = 0

\* C15: every operation given an id that is not in the roster (Team.get,
\* set_active, set_goalie, remove_robot, build_move_with_ball_actions, the
\* planner's role helpers, World.place_robot) returns None / an empty list or
\* has no effect, and leaves the roster and every robot unchanged
C15_AbsentIdNoEffect == (last \in RosterOps /\ ~args.known) => NoEffect

\* C15, amended: the same for every operation but World.place_robot, which
\* creates the missing robot at the pose given and leaves the other robots alone
C15_AbsentIdNoEffectButPlace ==
    /\ (last \in RosterOps \ {"place_robot"} /\ ~args.known) => NoEffect
    /\ (last = "place_robot" /\ ~args.known) =>
          /\ DOMAIN robots = DOMAIN pre.robots \cup {Key(args.side, args.rid)}
          /\ \A k \in DOMAIN pre.robots : robots[k] = pre.robots[k]
          /\ robots[Key(args.side, args.rid)] = Placed(1000, 1000, 180, FALSE)

\* a robot has been removed, and the next call names its id
C15_Witness ==
    /\ last \in {"set_active", "set_goalie", "_seek_ball"}
    /\ ~args.known
    /\ args.rid # 7

\* negative field dimensions, or a max_speed that is zero or negative
Invalid(c) == c.field_w < 0 \/ c.field_h < 0 \/ c.max_speed <= 0

\* C16: a world constructed with negative field dimensions or a robot with
\* zero or negative max_speed is rejected at construction, so no tick ever
\* runs on such a configuration (the clock of such a world never advances)
C16_InvalidConfigNeverRuns == Invalid(config) => t = 0

\* the team whose decide pass ran last, and its holder at the entry of the pass
DecideRan == last \in {"decide_left", "decide_right"}
HolderAtEntry == _find_holder_id(pre.robots, args.side)

\* the last pass ran in attack mode
AttackPass == DecideRan /\ HolderAtEntry # <<>>

\* an executor has fired in the last pass: the ball was detached and kicked
Fired ==
    \/ ball # pre.ball
    \/ kick_cooldown # pre.kick_cooldown
    \/ ~robots[HolderAtEntry].has_ball

\* the intent (vx, vy) points from (x, y) to (tx, ty), up to the rounding of the division
PointsAt(vx, vy, x, y, tx, ty) ==
    /\ Abs(vx * (ty - y) - vy * (tx - x)) <= Abs(tx - x) + Abs(ty - y)
    /\ vx * (tx - x) + vy * (ty - y) > 0

\* the sign of the turn command is the sign of the bearing error to (tx, ty)
TurnsTo(r, tx, ty) ==
    LET Same(err) == (err > 0 => r.desired_omega > 0) /\ (err < 0 => r.desired_omega < 0)
                       /\ (err = 0 => r.desired_omega = 0)
    IN Same(_wrap_pi(Atan2(ty - r.y, tx - r.x) - r.theta))

\* C17: when a decide pass runs for a team whose active holder has no scored
\* candidate, the holder is commanded to face and move toward the centre of the
\* opponent goal at a speed below max_speed, no executor fires and the sticky
\* memory is unchanged
C17_FallbackDrift ==
    (AttackPass /\ args.best = None) =>
        /\ PointsAt(robots[HolderAtEntry].desired_vx, robots[HolderAtEntry].desired_vy,
                    robots[HolderAtEntry].x, robots[HolderAtEntry].y, _goal_x_for(args.side), 0)
        /\ Speed2([vx |-> robots[HolderAtEntry].desired_vx, vy |-> robots[HolderAtEntry].desired_vy])
               < max_speed * max_speed
        /\ TurnsTo(robots[HolderAtEntry], _goal_x_for(args.side), 0)
        /\ ~Fired
        /\ imagined = args.imagined

\* the holder that is also the nearest to its own goal has an empty allowed set
C17_Witness ==
    /\ AttackPass
    /\ args.best = None
    /\ HolderAtEntry = Key("left", 1)
    /\ robots[HolderAtEntry].desired_vx > 0

\* the speed the executor of the selected action gives the ball
ConfiguredSpeed(sub) == IF sub = "TryToShoot" THEN SHOT_SPEED ELSE PASS_SPEED

\* the point the executor of the selected action aims the ball at: <<x, y>>
AimPoint(side, best) ==
    IF best.sub = "TryToShoot" THEN <<_goal_x_for(side), 0>> ELSE <<best.tgt.x, best.tgt.y>>

\* the ball b moves at speed (up to the rounding of the cosine table) towards p
KickedAt(b, speed, p) ==
    /\ Speed2(b) >= (speed - 10) * (speed - 10)
    /\ Speed2(b) <= (speed + 10) * (speed + 10)
    /\ Abs(_wrap_pi(Atan2(b.vy, b.vx) - Atan2(p[2] - b.y, p[1] - b.x))) <= 1

\* C18: an executor fires in a decide pass only if the selected action is a
\* shoot, a pass or a deep pass, the holder has the ball and is within 0.20 m
\* and 25 degrees of the envisaged pose; after it has fired the holder's
\* has_ball is false, kick_cooldown is 0.25 s and the ball moves at the
\* configured speed towards the goal centre / the receiver; a selected dribble
\* never fires an executor
C18_ExecutorFiring ==
    AttackPass =>
        /\ Fired =>
              /\ args.best.sub \in {"TryToShoot", "TryToPass", "TryToDeepPass"}
              /\ pre.robots[HolderAtEntry].has_ball
              /\ Dist2(pre.robots[HolderAtEntry], args.best.env.x, args.best.env.y)
                     <= 200 * 200
              /\ Abs(_wrap_pi(args.best.env.theta - pre.robots[HolderAtEntry].theta)) <= 25
              /\ ~robots[HolderAtEntry].has_ball
              /\ kick_cooldown = 250
              /\ KickedAt(ball, ConfiguredSpeed(args.best.sub), AimPoint(args.side, args.best))
        /\ args.best.sub = "TryToDribble" => ~Fired

\* a pass has been executed
C18_Witness ==
    /\ AttackPass
    /\ Fired
    /\ args.best.sub = "TryToPass"
    /\ kick_cooldown = 250

C18_WitnessShoot == AttackPass /\ Fired /\ args.best.sub = "TryToShoot"
C18_WitnessDeep == AttackPass /\ Fired /\ args.best.sub = "TryToDeepPass"
C18_WitnessDribble == AttackPass /\ args.best.sub = "TryToDribble"
C18_WitnessNoFire == AttackPass /\ ~Fired /\ args.best.sub = "TryToPass"

\* the robots of side that no robot of the roster R is nearer to the own goal line than
NearestToOwnGoal(R, side) ==
    {k \in Range(TeamKeys(R, side)) :
        \A j \in Range(TeamKeys(R, side)) :
            Abs(R[k].x + _goal_x_for(side)) <= Abs(R[j].x + _goal_x_for(side))}

\* C19: on every decide pass of a team in possession, the team's robot nearest
\* to its own goal line (if switched on) is given the goalkeeper behaviour,
\* also when it is the ball holder and when other robots are switched off
C19_NearestKeepsGoal ==
    AttackPass =>
        \A k \in NearestToOwnGoal(pre.robots, args.side) :
            pre.robots[k].active => robots[k].dbg_action = "GoalKeeping"

\* the switched-on robots of the team other than the holder and the goalkeeper
FieldPlayers ==
    {k \in Range(TeamKeys(pre.robots, args.side)) :
        /\ pre.robots[k].active
        /\ k # HolderAtEntry
        /\ k \notin NearestToOwnGoal(pre.robots, args.side)}

\* the field players the last pass gave the role named
WithRole(name) == {k \in FieldPlayers : robots[k].dbg_action = name}

\* C20: in attack mode, among the switched-on robots other than the holder and
\* the goalkeeper, exactly one is given the support role when there is any, at
\* most two are given the assist role and every other one the defence role,
\* for any mix of switched-on and switched-off robots
C20_RoleDistribution ==
    AttackPass =>
        /\ FieldPlayers # {} => Cardinality(WithRole("PositioningPlayingBall")) = 1
        /\ Cardinality(WithRole("PositioningAssist")) <= 2
        /\ FieldPlayers = WithRole("PositioningPlayingBall") \cup WithRole("PositioningAssist")
                              \cup WithRole("PositioningDefense")

\* the last pass ran in defence mode
DefencePass == DecideRan /\ HolderAtEntry = <<>>

\* the switched-on robots of the team at the entry of the pass, but the goalkeeper
Outfield ==
    {k \in Range(TeamKeys(pre.robots, args.side)) :
        pre.robots[k].active /\ k \notin NearestToOwnGoal(pre.robots, args.side)}

Chasers == {k \in Outfield : robots[k].dbg_action = "SeekBall"}

\* 2.5 m when an opponent holds the ball at the entry of the pass, 2.0 m when it is loose
CoverDepth == IF _find_holder_id(pre.robots, Other(args.side)) # <<>> THEN 2500 ELSE 2000

\* a switched-on robot of the team has been commanded to keep goal
KeeperCommanded ==
    \E k \in Range(TeamKeys(pre.robots, args.side)) :
        /\ pre.robots[k].active
        /\ robots[k] = GoalKeeping(pre.ball, args.side, SetDbg(pre.robots[k], "GoalKeeping"))

\* one chaser, the nearest to the ball, and cover at the depth of the pass for the rest
ChaseAndCover ==
    /\ Outfield # {} => Cardinality(Chasers) = 1
    /\ \A c \in Chasers : \A j \in Outfield :
          Dist2(pre.robots[c], pre.ball.x, pre.ball.y)
              <= Dist2(pre.robots[j], pre.ball.x, pre.ball.y)
    /\ \A k \in Outfield \ Chasers :
          robots[k] = PositioningDefense(state, ball, args.side,
                                         SetDbg(pre.robots[k], "PositioningDefense"),
                                         CoverDepth)

\* C21: in defence mode, whenever the team has switched-on robots, the
\* goalkeeper is commanded to keep goal, exactly one robot, the switched-on
\* non-goalkeeper nearest to the ball, is commanded to chase the ball, and every
\* other switched-on robot is commanded to defensive cover, at depth 2.5 m when
\* an opponent holds the ball and 2.0 m when the ball is loose
C21_DefenceRoles ==
    (DefencePass /\ \E k \in Range(TeamKeys(pre.robots, args.side)) : pre.robots[k].active)
        => (KeeperCommanded /\ ChaseAndCover)

\* C22: for fixed start, target, mover speed, opponents, body radius and
\* reaction time, the result of the interception model is in [0, 1], is 1 when
\* there are no opponents, and raising the opponents' assumed max speed never
\* raises it
C22_InterceptionMonotone ==
    last = "intercept" =>
        /\ 0 <= args.p_slow /\ args.p_slow <= Unit
        /\ 0 <= args.p_fast /\ args.p_fast <= Unit
        /\ args.interceptors = {} => (args.p_slow = Unit /\ args.p_fast = Unit)
        /\ args.p_fast <= args.p_slow

\* a faster opponent has lowered a probability that was neither 0 nor 1
C22_Witness ==
    /\ last = "intercept"
    /\ 0 < args.p_fast
    /\ args.p_fast < args.p_slow
    /\ args.p_slow < Unit

\* the ball Ball.update was handed by the last World.update: the anchor of the
\* holder if there is one, the ball at the entry of the update otherwise
Handed ==
    IF \E k \in DOMAIN robots : robots[k].has_ball
    THEN Anchor(robots[CHOOSE k \in DOMAIN robots : robots[k].has_ball])
    ELSE pre.ball

\* C23: after every Ball.update(dt > 0) in clip mode |x| <= half_w - radius and
\* |y| <= half_h - radius, and the velocity along an axis on which the ball was
\* clamped is 0; so after every World.update the ball lies inside the field
C23_BallInsideField ==
    (last = "update" /\ args.dt > 0) =>
        /\ Abs(ball.x) <= half_w - radius
        /\ Abs(ball.y) <= half_h - radius
        /\ Abs(Handed.x + DivR(Handed.vx * args.dt, 1000)) > half_w - radius => ball.vx = 0
        /\ Abs(Handed.y + DivR(Handed.vy * args.dt, 1000)) > half_h - radius => ball.vy = 0

\* a rolling ball that was beyond the side line and the goal line has been
\* clamped on both axes
C23_Witness ==
    /\ last = "update"
    /\ pre.ball.x > half_w /\ pre.ball.y < -half_h
    /\ pre.ball.vx # 0 /\ pre.ball.vy # 0
    /\ ball.x = half_w - radius /\ ball.y = -(half_h - radius)

C23_WitnessHeld ==
    /\ last = "update"
    /\ robots[Me].has_ball
    /\ Abs(Handed.y + DivR(Handed.vy * args.dt, 1000)) > half_h - radius

\* C24: on every World.update entered with kick_cooldown > 0 the cooldown is
\* decremented by dt (not below 0), no robot has has_ball after the update and
\* the ball is not anchored to any robot (it moves as a free ball), also in the
\* update in which the cooldown reaches 0
C24_CooldownBlocksHolder ==
    (last = "update" /\ pre.kick_cooldown > 0) =>
        /\ kick_cooldown = Max(0, pre.kick_cooldown - args.dt)
        /\ \A k \in DOMAIN robots : ~robots[k].has_ball
        /\ ball = BallUpdate(pre.ball, args.dt, half_w, half_h)

\* C25: after every World.update a robot with has_ball is active: a switched-off
\* robot is neither retained nor selected as holder by the world, and the
\* planner's holder lookup never returns one
C25_HolderIsActive ==
    last = "update" =>
        /\ \A k \in DOMAIN robots : robots[k].has_ball => robots[k].active
        /\ \A k \in DOMAIN robots : <<k>> = _find_holder_id(robots, "left") => robots[k].active

\* the allowed set of robot (side, rid): its entry, all four types without one
AllowedFor(side, rid) ==
    IF Key(side, rid) \in DOMAIN allowed THEN allowed[Key(side, rid)] ELSE Range(default_types)

\* C26: every action build_move_with_ball_actions returns for robot r has a
\* subtype in the allowed set configured for r (all four types when r has no
\* entry); with only TryToPass allowed, choose_best_action returns a TryToPass
\* action or nothing
C26_SubtypeAllowed ==
    last = "choose_best_action" =>
        /\ args.subs \subseteq AllowedFor(args.side, args.rid)
        /\ args.subs \subseteq Range(default_types)
        /\ AllowedFor(args.side, args.rid) = {"TryToPass"} =>
               (args.best = None \/ args.best.sub = "TryToPass")

\* a holder restricted to TryToPass gets a pass chosen
C26_Witness ==
    /\ last = "choose_best_action"
    /\ Key(args.side, args.rid) \in DOMAIN allowed
    /\ AllowedFor(args.side, args.rid) = {"TryToPass"}
    /\ args.best # None
    /\ args.best.sub = "TryToPass"

\* a holder without an entry gets candidates of several types
C26_WitnessNoEntry ==
    /\ last = "choose_best_action"
    /\ Key(args.side, args.rid) \notin DOMAIN allowed
    /\ Cardinality(args.subs) >= 3

\* a holder restricted to two types gets candidates of both
C26_WitnessTwo ==
    /\ last = "choose_best_action"
    /\ AllowedFor(args.side, args.rid) = {"TryToPass", "TryToDribble"}
    /\ args.subs = {"TryToPass", "TryToDribble"}

AtRest == ball.vx = 0 /\ ball.vy = 0
NoHolder == \A k \in DOMAIN robots : ~robots[k].has_ball

\* C27: a free ball (no holder, no further kick) under positive drag reaches
\* velocity exactly (0, 0) after finitely many World.update ticks, and from then
\* on every further tick leaves its position and velocity unchanged
C27_BallComesToRest ==
    /\ <>[](NoHolder => AtRest)
    /\ [][(last = "update" /\ NoHolder /\ AtRest /\ NoHolder') => ball' = ball]_vars

\* a ball slowed by drag alone has stopped inside the field after a long roll
C27_Witness ==
    /\ last = "update"
    /\ NoHolder
    /\ pre.ball.vx # 0
    /\ AtRest
    /\ Abs(ball.x) < half_w - radius
    /\ t > 60 * TickMs

\* the items of a roster, the ids among them, and the k items of lowest id
Items(tm) == Range(tm.robots)
Ids(tm) == Range(Keys(tm))
Lowest(tm, k) == {e \in Items(tm) : Cardinality({f \in Items(tm) : f.robot_id < e.robot_id}) < k}
DistinctIds(tm) == Cardinality(Ids(tm)) = Len(tm.robots)

C28_WitnessGrow ==
    /\ last = "ensure_size"
    /\ args.arg = 3
    /\ Len(args.before.robots) = 1
    /\ Cardinality(args.ever) >= 2

\* C29: the ids of the roster stay unique under add_robot (with or without an
\* explicit id), remove_robot and ensure_size: an id that add_robot allocates
\* itself is greater than every id added before, so it is neither in the roster
\* nor one that was removed earlier
C29_FreshIds ==
    /\ DistinctIds(team)
    /\ last \in {"add_robot", "ensure_size"} =>
          /\ \A a \in args.auto : \A i \in args.ever : a > i
          /\ \A a \in args.auto : a \notin Ids(args.before) /\ a \in Ids(team)
          /\ (last = "add_robot" /\ args.arg = <<>>) =>
                /\ Cardinality(args.auto) = 1
                /\ Len(team.robots) = Len(args.before.robots) + 1

\* add_robot allocates an id after an explicit id was added and removed again
C29_Witness ==
    /\ last = "add_robot"
    /\ args.arg = <<>>
    /\ \E i \in args.ever : i > 1 /\ i \notin Ids(args.before)
    /\ args.before.robots # <<>>

\* C30: in a team that starts empty, after any sequence of add_robot,
\* remove_robot, set_goalie and ensure_size, goalie_id is None exactly when the
\* roster is empty and otherwise the id of a robot of the roster
C30_GoalieInRoster ==
    /\ team.goalie_id = <<>> <=> team.robots = <<>>
    /\ team.goalie_id # <<>> => InTeam(team, team.goalie_id[1])

\* the goalkeeper is removed from a roster of several robots
C30_Witness ==
    /\ last \in {"remove_robot", "ensure_size"}
    /\ args.before.goalie_id # <<>>
    /\ ~InTeam(team, args.before.goalie_id[1])
    /\ team.robots # <<>>

\* the last robot is removed
C30_WitnessEmpty ==
    /\ last = "remove_robot"
    /\ args.before.robots # <<>>
    /\ team.robots = <<>>

====
